---- MODULE Spec2Model ----
(***************************************************************************)
(* A model of kinot.py: the membership-gated movie-code bot.               *)
(*                                                                         *)
(* Text values (chat identifiers, invite links, message texts) are         *)
(* sequences of one-character strings so that prefix, substring, strip     *)
(* and lower-casing are computed the way the Python code computes them.    *)
(* Handlers are coroutines: every await on the store or on the platform    *)
(* is a point where another handler may run, so a handler is a task with   *)
(* a program counter and its local variables.                              *)
(***************************************************************************)
EXTENDS Integers, Sequences, FiniteSets, TLC

\* ---------------------------------------------------------------- bounds
\* Number of update events (messages, callbacks, join requests) delivered.
MaxEvents == 2
\* Administrator messages in a run of overlapping flows: "Add Movie", a file and
\* a caption make one flow, and two flows can overlap.
MaxFlowMessages == 6

\* ------------------------------------------------------------ constants
\* kinot.py:48, the default of the VALIDATION_TTL environment variable.
VALIDATION_TTL == 3600

\* Python's None / SQL NULL (a tuple, so that it compares with text values).
None == <<"None">>

\* ------------------------------------------------------------------ text
Upper == <<"A","B","C","D","E","F","G","H","I","J","K","L","M",
           "N","O","P","Q","R","S","T","U","V","W","X","Y","Z">>
Lower == <<"a","b","c","d","e","f","g","h","i","j","k","l","m",
           "n","o","p","q","r","s","t","u","v","w","x","y","z">>
Digits == <<"0","1","2","3","4","5","6","7","8","9">>

Range(s) == {s[i] : i \in 1..Len(s)}

IsDigit(c) == c \in Range(Digits)
IsSpace(c) == c \in {" ", "\t", "\n"}
\* [A-Za-z0-9_]
IsWord(c) == c \in Range(Upper) \cup Range(Lower) \cup Range(Digits) \cup {"_"}

\* str.lower() on one character
LowerChar(c) ==
    IF c \in Range(Upper)
    THEN Lower[CHOOSE i \in 1..Len(Upper) : Upper[i] = c]
    ELSE c

\* str.lower()
ToLower(s) == [i \in 1..Len(s) |-> LowerChar(s[i])]

\* s.startswith(p)
StartsWith(s, p) == Len(p) <= Len(s) /\ SubSeq(s, 1, Len(p)) = p

\* p in s
Contains(s, p) ==
    \E i \in 1..(Len(s) - Len(p) + 1) : SubSeq(s, i, i + Len(p) - 1) = p

\* s[n:]
Drop(s, n) == SubSeq(s, n + 1, Len(s))

RECURSIVE LStrip(_)
LStrip(s) == IF s # <<>> /\ IsSpace(s[1]) THEN LStrip(Tail(s)) ELSE s

RECURSIVE RStrip(_)
RStrip(s) ==
    IF s # <<>> /\ IsSpace(s[Len(s)]) THEN RStrip(SubSeq(s, 1, Len(s) - 1)) ELSE s

\* str.strip()
Strip(s) == RStrip(LStrip(s))

\* a right strip that takes one slash and stops
RStripOneSlash(s) ==
    IF s # <<>> /\ s[Len(s)] = "/" THEN SubSeq(s, 1, Len(s) - 1) ELSE s

\* str.rstrip("/") : removes every trailing slash
RECURSIVE RStripSlash(_)
RStripSlash(s) ==
    IF s # <<>> /\ s[Len(s)] = "/" THEN RStripSlash(SubSeq(s, 1, Len(s) - 1)) ELSE s

\* str(int): decimal digits of a natural number, then the sign
RECURSIVE NatToStr(_)
NatToStr(n) ==
    IF n < 10 THEN <<Digits[n + 1]>>
    ELSE NatToStr(n \div 10) \o <<Digits[(n % 10) + 1]>>

IntToStr(n) == IF n < 0 THEN <<"-">> \o NatToStr(0 - n) ELSE NatToStr(n)

\* re.fullmatch(r"\d{1,4}", txt)
IsCode(txt) ==
    /\ Len(txt) >= 1
    /\ Len(txt) <= 4
    /\ \A i \in 1..Len(txt) : IsDigit(txt[i])

\* Length of the prefix re.sub(r"^https?://(www\.)?", "", u, flags=re.I) removes.
SchemePrefixLen(u) ==
    LET l == ToLower(u)
        h == IF StartsWith(l, <<"h","t","t","p","s",":","/","/">>) THEN 8
             ELSE IF StartsWith(l, <<"h","t","t","p",":","/","/">>) THEN 7
             ELSE 0
    IN  IF h = 0 THEN 0
        ELSE IF StartsWith(Drop(l, h), <<"w","w","w",".">>) THEN h + 4
        ELSE h

\* kinot.py:81-90
normalize_invite_for_compare(invite) ==
    IF invite = None \/ invite = <<>> THEN None
    ELSE LET u == Strip(invite)
         IN  ToLower(RStripSlash(Drop(u, SchemePrefixLen(u))))

T_tme == <<"t",".","m","e","/">>
T_telegramme == <<"t","e","l","e","g","r","a","m",".","m","e","/">>
T_https == <<"h","t","t","p","s",":","/","/">>
T_httpc == <<"h","t","t","p",":","/","/">>
T_http == <<"h","t","t","p">>
T_plus == <<"+">>
T_joinchat == <<"j","o","i","n","c","h","a","t">>
T_tmeplus == <<"t",".","m","e","/","+">>

\* re.fullmatch(r"[A-Za-z0-9_]{3,}", v)
IsUsername(v) == Len(v) >= 3 /\ \A i \in 1..Len(v) : IsWord(v[i])

\* v.lstrip("@")
RECURSIVE LStripAt(_)
LStripAt(v) == IF v # <<>> /\ v[1] = "@" THEN LStripAt(Tail(v)) ELSE v

\* a make_tg_url that puts "https://t.me/" before whatever it is given
make_tg_url_prefixing(val) ==
    IF val = None \/ val = <<>> THEN None
    ELSE T_https \o T_tme \o Strip(val)

\* kinot.py:57-79
make_tg_url(val) ==
    IF val = None \/ val = <<>> THEN None
    ELSE LET v == Strip(val)
         IN  IF StartsWith(v, T_tme) \/ StartsWith(v, T_telegramme)
             THEN (IF ~StartsWith(v, T_http) THEN T_https \o v ELSE v)
             ELSE IF StartsWith(v, T_httpc) \/ StartsWith(v, T_https)
             THEN v
             ELSE IF StartsWith(v, <<"@">>) \/ IsUsername(v)
             THEN T_https \o T_tme \o LStripAt(v)
             ELSE IF StartsWith(v, T_plus) \/ Contains(v, T_joinchat)
             THEN (IF ~StartsWith(v, T_http) THEN T_https \o T_tme \o v ELSE v)
             ELSE None

\* re.search(r"/[A-Za-z0-9_]{3,}", s)
HasSlashWord(s) ==
    \E i \in 1..(Len(s) - 3) :
        s[i] = "/" /\ IsWord(s[i + 1]) /\ IsWord(s[i + 2]) /\ IsWord(s[i + 3])

\* kinot.py:587-602: the invite the Add JoinRequest flow keeps for the text the
\* administrator sent at its link step; None when the flow rejects the text.
add_join_invite(text) ==
    LET ident == Strip(text)
        url == make_tg_url(ident)
        invite_norm == IF url = None THEN ident ELSE url
    IN  IF ident = <<>> THEN None
        ELSE IF /\ ~Contains(ToLower(invite_norm), T_tmeplus)
                /\ ~Contains(ToLower(invite_norm), T_joinchat)
                /\ ~HasSlashWord(invite_norm)
             THEN None
        ELSE invite_norm

\* ------------------------------------------------------------- datetimes
\* A datetime is <<"dt", seconds>>; its stored form is <<"iso", seconds>>.
\* datetime.isoformat(), kinot.py:190
isoformat(d) == <<"iso", d[2]>>

\* datetime.fromisoformat() guarded by "if r[1]" and try/except, kinot.py:207-212
fromisoformat(ts) ==
    IF ts = None \/ ts = <<>> THEN None
    ELSE IF Len(ts) = 2 /\ ts[1] = "iso" THEN <<"dt", ts[2]>>
    ELSE None

\* (now - last_validated_at).total_seconds(), kinot.py:796
total_seconds(now, then) == now[2] - then[2]

\* ------------------------------------------------------------ universes
\* Non-administrator users that write to the bot.
UserIds == {1, 2}
\* Handler tasks the dispatcher may have in flight at once.
Tasks == {1, 2}
\* Chats the platform knows, by numeric id.
ChatIds == {-11, -12}
\* ChatMember.status values of the platform.
Statuses == {"creator", "administrator", "member", "left"}
\* The result of a call that raised.
Raised == <<"Raised">>
\* The entry of a call that was not made.
NotCalled == <<"NotCalled">>

\* "+ab": a raw invite token kept as a chat identifier
CidToken == <<"+","a","b">>
\* "https://t.me/+ab"
InvAb == <<"h","t","t","p","s",":","/","/","t",".","m","e","/","+","a","b">>
\* "HTTPS://T.me/+abc/": a longer link that embeds the one above
InvAbcLong == <<"H","T","T","P","S",":","/","/","T",".","m","e","/","+","a","b","c","/">>
\* "https://t.me/+zz"
InvZz == <<"h","t","t","p","s",":","/","/","t",".","m","e","/","+","z","z">>
\* "https://www."
InvWww == <<"h","t","t","p","s",":","/","/","w","w","w",".">>

\* Message texts users send.
UserTexts == {<<"7">>, <<"4","2">>, <<"h","i">>}
\* invite_link values a join-request event carries (None: no link); the link
\* is the text kinot.py:895-896 hands to normalize_invite_for_compare.
EventInviteLinks == {None, InvAbcLong, InvZz}

VARIABLES
    users,                  \* table users: user_id -> row
    groups,                 \* table groups, in rowid order
    join_monitored,         \* table join_monitored, in rowid order
    pending_join_requests,  \* table pending_join_requests, in rowid order
    pending_seq,            \* AUTOINCREMENT high-water mark of pending_join_requests.id
    movies,                 \* table movies: code -> row
    clock,                  \* the last reading of datetime.utcnow(), in seconds
    events,                 \* update events delivered so far
    kb_shown,               \* users whose chat holds a message with the check_sub button
    admin_states,           \* admin_states.get(ADMIN_ID): the administrator's flow, or None
    settings,               \* table settings: key -> value, None when there is no row
    task                    \* the handler coroutines in flight

vars == <<users, groups, join_monitored, pending_join_requests, pending_seq,
          movies, clock, events, kb_shown, admin_states, settings, task>>

\* ------------------------------------------------------------ the store
NoRow == [present |-> FALSE, subscribed |-> 0, last_validated_at |-> None]

\* add_user_db as an INSERT OR REPLACE
add_user_db_replace(tbl, user_id) ==
    [tbl EXCEPT ![user_id] =
        [present |-> TRUE, subscribed |-> 0, last_validated_at |-> None]]

\* kinot.py:172-178  INSERT OR IGNORE INTO users VALUES (?, 0, NULL)
add_user_db(tbl, user_id) ==
    IF tbl[user_id].present THEN tbl
    ELSE [tbl EXCEPT ![user_id] =
            [present |-> TRUE, subscribed |-> 0, last_validated_at |-> None]]

\* update_user_last_validated without "subscribed = 1"
SetValidatedOnly(tbl, user_id, validated_at) ==
    IF tbl[user_id].present
    THEN [tbl EXCEPT ![user_id].last_validated_at = isoformat(validated_at)]
    ELSE tbl

\* kinot.py:189-193  UPDATE users SET last_validated_at = ?, subscribed = 1 WHERE user_id = ?
update_user_last_validated(tbl, user_id, validated_at) ==
    IF tbl[user_id].present
    THEN [tbl EXCEPT ![user_id].last_validated_at = isoformat(validated_at),
                     ![user_id].subscribed = 1]
    ELSE tbl

\* invalidate_user_subscription that also clears the timestamp
InvalidateAndClear(tbl, user_id) ==
    IF tbl[user_id].present
    THEN [tbl EXCEPT ![user_id].subscribed = 0,
                     ![user_id].last_validated_at = None]
    ELSE tbl

\* an invalidation that writes nothing
invalidate_writes_nothing(tbl, user_id) == tbl

\* kinot.py:195-198  UPDATE users SET subscribed = 0 WHERE user_id = ?
invalidate_user_subscription(tbl, user_id) ==
    IF tbl[user_id].present
    THEN [tbl EXCEPT ![user_id].subscribed = 0]
    ELSE tbl

\* kinot.py:200-213  -> <<subscribed, last_validated_at>>
get_user_record_db(tbl, user_id) ==
    IF ~tbl[user_id].present THEN <<0, None>>
    ELSE <<tbl[user_id].subscribed, fromisoformat(tbl[user_id].last_validated_at)>>

\* Byte order of two characters (SQLite's BINARY collation on the ASCII range).
Ascii == <<"\t", "\n", " ", "+", "-", ".", "/">> \o Digits \o <<":", "@">>
         \o Upper \o <<"_">> \o Lower
Ord(c) == CHOOSE i \in 1..Len(Ascii) : Ascii[i] = c

RECURSIVE TextLess(_, _)
TextLess(a, b) ==
    IF b = <<>> THEN FALSE
    ELSE IF a = <<>> THEN TRUE
    ELSE IF a[1] = b[1] THEN TextLess(Tail(a), Tail(b))
    ELSE Ord(a[1]) < Ord(b[1])

\* ORDER BY chat_id of a table whose primary key is chat_id
RECURSIVE OrderByChatId(_)
OrderByChatId(rows) ==
    IF rows = <<>> THEN <<>>
    ELSE LET m == CHOOSE i \in 1..Len(rows) :
                    \A j \in 1..Len(rows) :
                        j = i \/ TextLess(rows[i].chat_id, rows[j].chat_id)
             rest == [k \in 1..(Len(rows) - 1) |-> IF k < m THEN rows[k] ELSE rows[k + 1]]
         IN  <<rows[m]>> \o OrderByChatId(rest)

\* kinot.py:239-243
list_groups_db(tbl) == OrderByChatId(tbl)

\* kinot.py:255-259
list_join_monitored_db(tbl) == OrderByChatId(tbl)

\* is_join_monitored_db that finds no row
is_join_monitored_never(tbl, chat_id) == FALSE

\* kinot.py:261-265
is_join_monitored_db(tbl, chat_id) == \E i \in 1..Len(tbl) : tbl[i].chat_id = chat_id

\* kinot.py:267-271  the new row; id is the AUTOINCREMENT successor
add_pending_join_request_db(tbl, seq, chat_id, user_id) ==
    Append(tbl, [id |-> seq + 1, chat_id |-> chat_id, user_id |-> user_id])

\* a list of the pending requests of every user
list_pending_of_anyone(tbl, user_id) == tbl

\* kinot.py:273-277
list_pending_for_user_db(tbl, user_id) ==
    SelectSeq(tbl, LAMBDA r : r.user_id = user_id)

\* get_movie_db that answers with a row for a code the catalog does not have
get_movie_db_any(tbl, code) ==
    IF code \in DOMAIN tbl /\ tbl[code].present
    THEN <<"row", tbl[code].file_type, tbl[code].downloads>>
    ELSE <<"row", "video", 0>>

\* kinot.py:299-305  -> None or <<"row", file_type, downloads>>
get_movie_db(tbl, code) ==
    IF code \in DOMAIN tbl /\ tbl[code].present
    THEN <<"row", tbl[code].file_type, tbl[code].downloads>>
    ELSE None

\* a SELECT that finds no earlier counter
add_movie_db_select_none(tbl, code) == 0

\* kinot.py:284-286  SELECT downloads FROM movies WHERE code = ?, 0 without a row
add_movie_db_select(tbl, code) ==
    IF code \in DOMAIN tbl /\ tbl[code].present
    THEN tbl[code].downloads
    ELSE 0

\* kinot.py:287-291  INSERT OR REPLACE INTO movies(code, ..., downloads)
add_movie_db_insert(tbl, code, file_type, downloads) ==
    [c \in DOMAIN tbl \cup {code} |->
        IF c = code
        THEN [present |-> TRUE, file_type |-> file_type, downloads |-> downloads]
        ELSE tbl[c]]

\* an UPDATE that writes 1 instead of adding 1
increment_overwrites(tbl, code) ==
    IF code \in DOMAIN tbl /\ tbl[code].present
    THEN [tbl EXCEPT ![code].downloads = 1]
    ELSE tbl

\* the UPDATE with "+ 2"
increment_by_two(tbl, code) ==
    IF code \in DOMAIN tbl /\ tbl[code].present
    THEN [tbl EXCEPT ![code].downloads = @ + 2]
    ELSE tbl

\* kinot.py:309  UPDATE movies SET downloads = COALESCE(downloads,0) + 1 WHERE code = ?
increment_movie_downloads(tbl, code) ==
    IF code \in DOMAIN tbl /\ tbl[code].present
    THEN [tbl EXCEPT ![code].downloads = @ + 1]
    ELSE tbl

\* ------------------------------------------------- CORE: check_user_all
\* Outcomes of bot.get_chat(chat_id): a chat with an id, or an exception.
GetChatOutcomes == {<<"chat", c>> : c \in ChatIds} \cup {Raised}
\* Outcomes of bot.get_chat_member(target, user_id): a member with a status, or an exception.
GetChatMemberOutcomes == {<<"status", st>> : st \in Statuses} \cup {Raised}

\* kinot.py:384 and 412: the stored identifier is a raw invite, to be resolved
LooksLikeInvite(chat_id) ==
    \/ StartsWith(chat_id, T_http)
    \/ StartsWith(chat_id, T_plus)
    \/ Contains(chat_id, T_joinchat)

\* ResolveTarget that loses the stored identifier when get_chat raises
ResolveTargetNoFallback(chat_id, gc) ==
    IF gc # NotCalled /\ gc # Raised THEN IntToStr(gc[2]) ELSE None

\* kinot.py:383-390 and 411-418: the lookup target after the resolution attempt
ResolveTarget(chat_id, gc) ==
    IF gc # NotCalled /\ gc # Raised THEN IntToStr(gc[2]) ELSE chat_id

\* found_pending that compares with the stored identifier only
found_pending_raw_only(pendings, chat_id, target) ==
    \E i \in 1..Len(pendings) : pendings[i].chat_id = chat_id

\* kinot.py:391-396
found_pending(pendings, chat_id, target) ==
    \E i \in 1..Len(pendings) :
        pendings[i].chat_id = chat_id \/ pendings[i].chat_id = target

\* StatusOk without "creator"
StatusOkNoCreator(m) ==
    m # Raised /\ m[2] \in {"member", "administrator"}

\* kinot.py:402 and 422: status in ("member", "administrator", "creator")
StatusOk(m) ==
    m # Raised /\ m[2] \in {"member", "administrator", "creator"}

\* an iteration that reports the identifier it queried
IterationReportsTarget(acc, tbl, row, gc, target, fp, m) ==
    [missing |-> IF ~fp /\ ~StatusOk(m)
                 THEN Append(acc.missing, <<target, row.invite>>)
                 ELSE acc.missing,
     qlog |-> Append(acc.qlog,
                [table |-> tbl, chat_id |-> row.chat_id, invite |-> row.invite,
                 get_chat |-> gc, target |-> target,
                 get_chat_member |-> IF fp THEN NotCalled ELSE m])]

\* One executed iteration: what was called, what it answered, and the lists after it.
Iteration(acc, tbl, row, gc, target, fp, m) ==
    [missing |-> IF ~fp /\ ~StatusOk(m)
                 THEN Append(acc.missing, <<row.chat_id, row.invite>>)
                 ELSE acc.missing,
     qlog |-> Append(acc.qlog,
                [table |-> tbl, chat_id |-> row.chat_id, invite |-> row.invite,
                 get_chat |-> gc, target |-> target,
                 get_chat_member |-> IF fp THEN NotCalled ELSE m])]

\* kinot.py:382-407: the loop over the monitored join-request channels; the set of
\* results over every answer the platform may give.
RECURSIVE JoinLoop(_, _, _, _)
JoinLoop(monitored, pendings, i, acc) ==
    IF i > Len(monitored) THEN {acc}
    ELSE LET row == monitored[i]
             gcs == IF LooksLikeInvite(row.chat_id) THEN GetChatOutcomes ELSE {NotCalled}
         IN  UNION { LET target == ResolveTarget(row.chat_id, gc)
                         fp == found_pending(pendings, row.chat_id, target)
                         ms == IF fp THEN {NotCalled} ELSE GetChatMemberOutcomes
                     IN  UNION { JoinLoop(monitored, pendings, i + 1,
                                          Iteration(acc, "join", row, gc, target, fp, m))
                                 : m \in ms }
                   : gc \in gcs }

\* kinot.py:410-427: the loop over the groups; pending requests are not consulted.
RECURSIVE GroupLoop(_, _, _)
GroupLoop(grps, i, acc) ==
    IF i > Len(grps) THEN {acc}
    ELSE LET row == grps[i]
             gcs == IF LooksLikeInvite(row.chat_id) THEN GetChatOutcomes ELSE {NotCalled}
         IN  UNION { LET target == ResolveTarget(row.chat_id, gc)
                     IN  UNION { GroupLoop(grps, i + 1,
                                           Iteration(acc, "group", row, gc, target, FALSE, m))
                                 : m \in GetChatMemberOutcomes }
                   : gc \in gcs }

\* ------------------------------------------------------------ the tasks
\* A handler coroutine: its position and its local variables.
IdleTask ==
    [kind |-> "idle", pc |-> "idle", user |-> 0, txt |-> <<>>,
     chat |-> 0, invite_link |-> None,
     subscribed |-> 0, last_validated_at |-> None, now |-> None,
     ret |-> "", monitored |-> <<>>, pendings |-> <<>>, grps |-> <<>>,
     qlog |-> <<>>, missing |-> <<>>, ok |-> FALSE,
     path |-> "", mv |-> None, new_count |-> 0,
     is_monitored |-> FALSE, stored_invite |-> None, out |-> <<>>,
     media |-> "none", next_code |-> None, code |-> <<>>, downloads |-> 0,
     escaped |-> FALSE, arg |-> <<>>, res |-> <<>>, after |-> {},
     chat_id_to_save |-> <<>>, invite |-> None]

At(t, pc) == task[t].pc = pc
\* The dispatcher runs a new handler in the first free task.
Free(t) == At(t, "idle") /\ \A s \in Tasks : s < t => ~At(s, "idle")
Goto(t, r) == task' = [task EXCEPT ![t] = r]

\* The frame of check_user_all is gone once the caller has moved on.
DropFrame(r) ==
    [r EXCEPT !.monitored = <<>>, !.pendings = <<>>, !.grps = <<>>, !.qlog = <<>>]

StoreVars == <<users, groups, join_monitored, pending_join_requests, pending_seq, movies>>
TimeVars == <<clock>>
AdminVars == <<admin_states, settings>>

\* ------------------------------------------------------- initial stores
Cid11 == IntToStr(-11)
Cid12 == IntToStr(-12)

\* The store the process finds at start-up: init_db creates tables only if they
\* are missing, so the rows of earlier runs are there. Invites are the values
\* the Add JoinRequest flow keeps for "+ab" and for "https://www."; the rows
\* whose chat_id is the raw token "+ab" are those kinot.py:384 and 412 provide for.
InitialStores ==
    { [jm |-> <<[chat_id |-> Cid11, invite |-> add_join_invite(CidToken)]>>,
       gr |-> <<[chat_id |-> CidToken, invite |-> None]>>],
      [jm |-> <<[chat_id |-> Cid12, invite |-> add_join_invite(InvWww)],
                [chat_id |-> CidToken, invite |-> add_join_invite(CidToken)]>>,
       gr |-> <<>>],
      [jm |-> <<[chat_id |-> Cid11, invite |-> None]>>,
       gr |-> <<[chat_id |-> Cid11, invite |-> InvAb]>>],
      [jm |-> <<>>, gr |-> <<>>] }

Init ==
    /\ users = [u \in UserIds |-> NoRow]
    /\ \E s \in InitialStores :
        /\ join_monitored = s.jm
        /\ groups = s.gr
    /\ pending_join_requests = <<>>
    /\ pending_seq = 0
    /\ movies = [c \in {<<"7">>} |->
                    [present |-> TRUE, file_type |-> "video", downloads |-> 0]]
    /\ clock = 0
    /\ events = 0
    /\ kb_shown = {}
    /\ admin_states = None
    /\ settings = [next_code |-> <<"8">>]
    /\ task = [t \in Tasks |-> IdleTask]

\* ------------------------------------------------------ the environment
\* datetime.utcnow(): the seconds gone by since the clock was last read are an
\* input of the reading step (time passing commutes with every other step).
Elapsed == {0, VALIDATION_TTL - 1, VALIDATION_TTL}

\* One handler at a time: the dispatcher takes the next update when no handler
\* is in flight.
AllIdle == \A t \in Tasks : At(t, "idle")

\* kinot.py:784: a message of a user who is not the administrator
StartUserMessage(t) ==
    /\ Free(t)
    /\ events < MaxEvents
    /\ \E u \in UserIds, txt \in UserTexts :
        Goto(t, [IdleTask EXCEPT !.kind = "user_handler", !.pc = "uh_add_user",
                                 !.user = u, !.txt = txt])
    /\ events' = events + 1
    /\ UNCHANGED <<AdminVars, StoreVars, TimeVars, kb_shown>>

\* kinot.py:462: the check_sub button of a keyboard the bot sent earlier
StartCheckSub(t) ==
    /\ Free(t)
    /\ events < MaxEvents
    /\ \E u \in kb_shown :
        Goto(t, [IdleTask EXCEPT !.kind = "cb_check_sub", !.pc = "cua_list_monitored",
                                 !.user = u, !.ret = "cb_check_sub"])
    /\ events' = events + 1
    /\ UNCHANGED <<AdminVars, StoreVars, TimeVars, kb_shown>>

\* kinot.py:874: a join request to a chat where the bot is an administrator
StartJoinRequest(t) ==
    /\ Free(t)
    /\ events < MaxEvents
    /\ \E u \in UserIds, c \in ChatIds, l \in EventInviteLinks :
        Goto(t, [IdleTask EXCEPT !.kind = "on_chat_join_request", !.pc = "jr_is_monitored",
                                 !.user = u, !.chat = c, !.invite_link = l])
    /\ events' = events + 1
    /\ UNCHANGED <<AdminVars, StoreVars, TimeVars, kb_shown>>

\* The coroutine has returned; the dispatcher drops it.
Finish(t) ==
    /\ At(t, "done")
    /\ Goto(t, IdleTask)
    /\ UNCHANGED <<AdminVars, StoreVars, TimeVars, events, kb_shown>>

\* --------------------------------------------------------- user_handler
\* CacheValid with elapsed <= VALIDATION_TTL
CacheValidInclusive(subscribed, last_validated_at, now) ==
    /\ subscribed # 0
    /\ last_validated_at # None
    /\ total_seconds(now, last_validated_at) <= VALIDATION_TTL

\* CacheValid without the age test
CacheValidIgnoringTime(subscribed, last_validated_at, now) ==
    /\ subscribed # 0
    /\ last_validated_at # None

\* kinot.py:795-797: the cached verdict is still good
CacheValid(subscribed, last_validated_at, now) ==
    /\ subscribed # 0
    /\ last_validated_at # None
    /\ total_seconds(now, last_validated_at) < VALIDATION_TTL

\* kinot.py:786-789 and 871: add_user_db, then the shape of the text; a text that
\* is no code is answered with the hint
uh_add_user(t) ==
    /\ At(t, "uh_add_user")
    /\ users' = add_user_db(users, task[t].user)
    /\ LET txt == Strip(task[t].txt)
       IN  Goto(t, [task[t] EXCEPT
                !.txt = txt,
                !.out = IF IsCode(txt) THEN @ ELSE Append(@, <<"send_code_please">>),
                !.pc = IF IsCode(txt) THEN "uh_get_record" ELSE "done"])
    /\ UNCHANGED <<AdminVars, groups, join_monitored, pending_join_requests, pending_seq, movies,
                   TimeVars, events, kb_shown>>

\* kinot.py:791-797 and 829-830: read the record and the clock, take the cached
\* verdict or call check_user_all
uh_get_record(t) ==
    /\ At(t, "uh_get_record")
    /\ \E d \in Elapsed :
        /\ clock' = clock + d
        /\ LET rec == get_user_record_db(users, task[t].user)
               now == <<"dt", clock + d>>
           IN  Goto(t, [task[t] EXCEPT
                !.subscribed = rec[1],
                !.last_validated_at = rec[2],
                !.now = now,
                !.path = IF CacheValid(rec[1], rec[2], now) THEN "hit" ELSE "miss",
                !.ret = IF CacheValid(rec[1], rec[2], now) THEN "" ELSE "user_handler",
                !.pc = IF CacheValid(rec[1], rec[2], now)
                       THEN "get_movie" ELSE "cua_list_monitored"])
    /\ UNCHANGED <<AdminVars, StoreVars, events, kb_shown>>

\* send_video / send_document raised and the handler logs and returns
AfterSendCountsAnyway(mv, sent) ==
    IF mv # None THEN "incr_update" ELSE "done"

\* kinot.py:799-801, 809-816 and 842-844, 851-858: where the handler goes after
\* the lookup and the send
AfterSend(mv, sent) ==
    IF mv # None /\ sent THEN "incr_update" ELSE "done"

\* kinot.py:798-816 and 841-858: the catalog lookup, then send_video or
\* send_document, which may raise
get_movie_and_send(t) ==
    /\ At(t, "get_movie")
    /\ LET mv == get_movie_db(movies, task[t].txt)
       IN  \E sent \in BOOLEAN :
            Goto(t, [task[t] EXCEPT
                !.mv = mv,
                !.out = IF mv = None THEN Append(@, <<"code_not_found">>)
                        ELSE IF sent THEN Append(@, <<"file", task[t].txt>>)
                        ELSE @,
                !.pc = AfterSend(mv, sent)])
    /\ UNCHANGED <<AdminVars, StoreVars, TimeVars, events, kb_shown>>

\* kinot.py:819 and 860 -> 309: the UPDATE of increment_movie_downloads
incr_update(t) ==
    /\ At(t, "incr_update")
    /\ movies' = increment_movie_downloads(movies, task[t].txt)
    /\ Goto(t, [task[t] EXCEPT !.pc = "incr_select"])
    /\ UNCHANGED <<AdminVars, users, groups, join_monitored, pending_join_requests, pending_seq,
                   TimeVars, events, kb_shown>>

\* kinot.py:311-313, 820-824 and 861-865: read the count back, edit the caption
incr_select(t) ==
    /\ At(t, "incr_select")
    /\ LET r == get_movie_db(movies, task[t].txt)
           n == IF r = None THEN 0 ELSE r[3]
       IN  Goto(t, [task[t] EXCEPT
                !.new_count = n,
                !.out = Append(@, <<"caption", n>>),
                !.pc = "done"])
    /\ UNCHANGED <<AdminVars, StoreVars, TimeVars, events, kb_shown>>

\* kinot.py:834-835
uh_invalidate(t) ==
    /\ At(t, "uh_invalidate")
    /\ users' = invalidate_user_subscription(users, task[t].user)
    /\ Goto(t, [DropFrame(task[t]) EXCEPT !.pc = "done"])
    /\ UNCHANGED <<AdminVars, groups, join_monitored, pending_join_requests, pending_seq, movies,
                   TimeVars, events, kb_shown>>

\* kinot.py:838: the time read at line 792 is stored
uh_update_validated(t) ==
    /\ At(t, "uh_update_validated")
    /\ users' = update_user_last_validated(users, task[t].user, task[t].now)
    /\ Goto(t, [DropFrame(task[t]) EXCEPT !.pc = "get_movie"])
    /\ UNCHANGED <<AdminVars, groups, join_monitored, pending_join_requests, pending_seq, movies,
                   TimeVars, events, kb_shown>>

\* ------------------------------------------------------- check_user_all
\* kinot.py:378-379
cua_list_monitored(t) ==
    /\ At(t, "cua_list_monitored")
    /\ Goto(t, [task[t] EXCEPT
            !.missing = <<>>,
            !.monitored = list_join_monitored_db(join_monitored),
            !.pc = "cua_list_pending"])
    /\ UNCHANGED <<AdminVars, StoreVars, TimeVars, events, kb_shown>>

\* kinot.py:380-407: the pending requests of the user, then the loop over the
\* monitored join-request channels
cua_list_pending(t) ==
    /\ At(t, "cua_list_pending")
    /\ LET pendings == list_pending_for_user_db(pending_join_requests, task[t].user)
       IN  \E r \in JoinLoop(task[t].monitored, pendings, 1,
                             [missing |-> task[t].missing, qlog |-> <<>>]) :
            Goto(t, [task[t] EXCEPT
                !.pendings = pendings,
                !.missing = r.missing, !.qlog = r.qlog, !.pc = "cua_list_groups"])
    /\ UNCHANGED <<AdminVars, StoreVars, TimeVars, events, kb_shown>>

\* a caller that treats every check as failed
AfterCheckAlwaysBlocks(ret, ok) ==
    IF ret = "user_handler" THEN "uh_invalidate" ELSE "cb_answer"

\* a check_user_all that marks the user unsubscribed itself when it fails
check_user_all_invalidates(tbl, user_id, ok) ==
    IF ok THEN tbl ELSE invalidate_user_subscription(tbl, user_id)

\* kinot.py:377-428: the users table after check_user_all, whose statements on
\* the database are the three SELECTs of its list functions
check_user_all_users(tbl, user_id, ok) == tbl

\* check_user_all of task s has returned to its caller
EvaluationReturned(s) ==
    /\ task[s].ret \in {"user_handler", "cb_check_sub"}
    /\ task[s].pc \notin {"cua_list_monitored", "cua_list_pending", "cua_list_groups"}

\* Where the caller goes on with (ok, missing): kinot.py:466 and 478-486 in
\* cb_check_sub, kinot.py:831-833 in user_handler.
AfterCheck(ret, ok) ==
    IF ret = "user_handler"
    THEN (IF ok THEN "uh_update_validated" ELSE "uh_invalidate")
    ELSE (IF ok THEN "cb_update_validated" ELSE "cb_answer")

\* What the caller sends when the check fails: the keyboard of the missing
\* requirements, kinot.py:832-833 and 478-482.
BlockedMessage(ret, ok, missing) ==
    IF ok THEN <<>>
    ELSE IF ret = "user_handler" THEN <<<<"requirements", missing>>>>
    ELSE <<<<"still_missing", missing>>>>

\* kinot.py:409-428: the groups, the loop over them, and the return of
\* (len(missing) == 0, missing) to the caller, which on a failed check sends the
\* keyboard of the missing requirements; a keyboard that does not arrive is a
\* keyboard whose button is never pressed. The callee's frame (monitored,
\* pendings, grps, qlog) is dropped by the caller's next step. "after" notes the
\* handlers in flight whose check_user_all had returned before this one did.
cua_list_groups(t) ==
    /\ At(t, "cua_list_groups")
    /\ LET grps == list_groups_db(groups)
       IN  \E r \in GroupLoop(grps, 1, [missing |-> task[t].missing, qlog |-> task[t].qlog]) :
            LET ok == Len(r.missing) = 0
            IN  /\ Goto(t, [task[t] EXCEPT
                        !.grps = grps,
                        !.missing = r.missing, !.qlog = r.qlog,
                        !.ok = ok,
                        !.after = {s \in Tasks : EvaluationReturned(s)},
                        !.out = @ \o BlockedMessage(task[t].ret, ok, r.missing),
                        !.pc = AfterCheck(task[t].ret, ok)])
                /\ kb_shown' = IF ok THEN kb_shown ELSE kb_shown \cup {task[t].user}
                /\ users' = check_user_all_users(users, task[t].user, ok)
    /\ UNCHANGED <<AdminVars, groups, join_monitored, pending_join_requests, pending_seq,
                   movies, TimeVars, events>>

\* --------------------------------------------------------- cb_check_sub
\* kinot.py:467-477: the time of the update is read when it is made
cb_update_validated(t) ==
    /\ At(t, "cb_update_validated")
    /\ \E d \in Elapsed :
        /\ clock' = clock + d
        /\ users' = update_user_last_validated(users, task[t].user, <<"dt", clock + d>>)
        /\ Goto(t, [DropFrame(task[t]) EXCEPT
                !.now = <<"dt", clock + d>>,
                !.out = Append(@, <<"check_passed">>),
                !.pc = "done"])
    /\ UNCHANGED <<AdminVars, groups, join_monitored, pending_join_requests, pending_seq, movies,
                   events, kb_shown>>

\* kinot.py:483-486: cq.answer() after the keyboard was shown again
cb_answer(t) ==
    /\ At(t, "cb_answer")
    /\ Goto(t, [DropFrame(task[t]) EXCEPT !.pc = "done"])
    /\ UNCHANGED <<AdminVars, StoreVars, TimeVars, events, kb_shown>>

\* ------------------------------------------------- on_chat_join_request
\* InviteMatches without the substring test
InviteMatchesAlways(inv, inv_link_norm) == inv # None /\ inv # <<>>

\* kinot.py:900-904: a stored invite matches the observed link
InviteMatches(inv, inv_link_norm) ==
    /\ inv # None
    /\ inv # <<>>
    /\ LET inv_norm == normalize_invite_for_compare(inv)
       IN  /\ inv_norm # None
           /\ inv_norm # <<>>
           /\ Contains(IF inv_link_norm = None THEN <<>> ELSE inv_link_norm, inv_norm)

\* kinot.py:894-909: the first row, in table order, whose invite matches (0: none)
FirstInviteMatch(rows, invite_link) ==
    LET inv_link_norm == normalize_invite_for_compare(
                            IF invite_link = None THEN <<>> ELSE invite_link)
        hits == {i \in 1..Len(rows) : InviteMatches(rows[i].invite, inv_link_norm)}
    IN  IF hits = {} THEN 0 ELSE CHOOSE i \in hits : \A j \in hits : i <= j

\* kinot.py:883-884
jr_is_monitored(t) ==
    /\ At(t, "jr_is_monitored")
    /\ LET m == is_join_monitored_db(join_monitored, IntToStr(task[t].chat))
       IN  Goto(t, [task[t] EXCEPT
                !.is_monitored = m,
                !.pc = IF m THEN "jr_select_invite" ELSE "jr_scan_invites"])
    /\ UNCHANGED <<AdminVars, StoreVars, TimeVars, events, kb_shown>>

\* kinot.py:885-888: SELECT invite FROM join_monitored WHERE chat_id = ?
jr_select_invite(t) ==
    /\ At(t, "jr_select_invite")
    /\ LET hits == {i \in 1..Len(join_monitored) :
                        join_monitored[i].chat_id = IntToStr(task[t].chat)}
       IN  Goto(t, [task[t] EXCEPT
                !.stored_invite = IF hits = {} THEN None
                                  ELSE join_monitored[CHOOSE i \in hits : TRUE].invite,
                !.pc = "jr_add_pending"])
    /\ UNCHANGED <<AdminVars, StoreVars, TimeVars, events, kb_shown>>

\* kinot.py:893-913: the scan of the stored invites; an unmonitored request is ignored
jr_scan_invites(t) ==
    /\ At(t, "jr_scan_invites")
    /\ LET i == FirstInviteMatch(join_monitored, task[t].invite_link)
       IN  Goto(t, [task[t] EXCEPT
                !.is_monitored = i # 0,
                !.stored_invite = IF i # 0 THEN join_monitored[i].invite ELSE None,
                !.pc = IF i # 0 THEN "jr_add_pending" ELSE "done"])
    /\ UNCHANGED <<AdminVars, StoreVars, TimeVars, events, kb_shown>>

\* kinot.py:915-917
jr_add_pending(t) ==
    /\ At(t, "jr_add_pending")
    /\ pending_join_requests' =
            add_pending_join_request_db(pending_join_requests, pending_seq,
                                        IntToStr(task[t].chat), task[t].user)
    /\ pending_seq' = pending_seq + 1
    /\ Goto(t, [task[t] EXCEPT !.pc = "jr_notify"])
    /\ UNCHANGED <<AdminVars, users, groups, join_monitored, movies, TimeVars, events, kb_shown>>

\* the second notice is given up when the first is not delivered
NoticesStopAtFailure(to_admin, to_user) ==
    IF to_admin THEN <<<<"admin_notice", to_admin>>, <<"user_ack", to_user>>>>
    ELSE <<<<"admin_notice", to_admin>>>>

\* kinot.py:368-374 and 929-933: safe_send returns whether the message went out
\* and never raises, so both notices are attempted
NoticesAfterRow(to_admin, to_user) ==
    <<<<"admin_notice", to_admin>>, <<"user_ack", to_user>>>>

\* kinot.py:919-933: safe_send to the administrator, then to the requester
jr_notify(t) ==
    /\ At(t, "jr_notify")
    /\ \E to_admin \in BOOLEAN, to_user \in BOOLEAN :
        Goto(t, [task[t] EXCEPT
            !.out = @ \o NoticesAfterRow(to_admin, to_user),
            !.pc = "done"])
    /\ UNCHANGED <<AdminVars, StoreVars, TimeVars, events, kb_shown>>

\* ------------------------------------------------------------ the system
\* The steps of the coroutines in flight, which the event loop runs.
Run(t) ==
    \/ uh_add_user(t)
    \/ uh_get_record(t)
    \/ get_movie_and_send(t)
    \/ incr_update(t)
    \/ incr_select(t)
    \/ uh_invalidate(t)
    \/ uh_update_validated(t)
    \/ cua_list_monitored(t)
    \/ cua_list_pending(t)
    \/ cua_list_groups(t)
    \/ cb_update_validated(t)
    \/ cb_answer(t)
    \/ jr_is_monitored(t)
    \/ jr_select_invite(t)
    \/ jr_scan_invites(t)
    \/ jr_add_pending(t)
    \/ jr_notify(t)
    \/ Finish(t)

Step(t) ==
    \/ (AllIdle /\ StartUserMessage(t))
    \/ (AllIdle /\ StartCheckSub(t))
    \/ (AllIdle /\ StartJoinRequest(t))
    \/ Run(t)

Next == \E t \in Tasks : Step(t)

Spec == Init /\ [][Next]_vars

\* ------------------------------------------------------- a later start
\* The store and the chats as two redemptions of user 1 leave them: the first
\* was blocked and left the keyboard with the check_sub button in the chat, the
\* second passed the check and delivered code 7. The database file and the
\* messages in the chat outlive the process; user 2 has never written.
InitLater ==
    /\ users = [u \in UserIds |->
                    IF u = 1
                    THEN [present |-> TRUE, subscribed |-> 1,
                          last_validated_at |-> isoformat(<<"dt", 0>>)]
                    ELSE NoRow]
    /\ join_monitored = <<[chat_id |-> Cid11, invite |-> None]>>
    /\ groups = <<[chat_id |-> Cid11, invite |-> InvAb]>>
    /\ pending_join_requests = <<>>
    /\ pending_seq = 0
    /\ movies = [c \in {<<"7">>} |->
                    [present |-> TRUE, file_type |-> "video", downloads |-> 1]]
    /\ clock = 0
    /\ events = 0
    /\ kb_shown = {1}
    /\ admin_states = None
    /\ settings = [next_code |-> <<"8">>]
    /\ task = [t \in Tasks |-> IdleTask]

SpecLater == InitLater /\ [][Next]_vars

\* asyncio runs every coroutine that is ready: a handler in flight is not left
\* waiting for ever. Nothing obliges a user to send another update.
SpecLive == InitLater /\ [][Next]_vars /\ \A t \in Tasks : WF_vars(Run(t))

\* ------------------------------------------------- overlapping redemptions
\* A fresh database with the seeded catalog and no requirement registered: what
\* init_db leaves when the administrator has added one movie and nothing else.
InitConc ==
    /\ users = [u \in UserIds |-> NoRow]
    /\ join_monitored = <<>>
    /\ groups = <<>>
    /\ pending_join_requests = <<>>
    /\ pending_seq = 0
    /\ movies = [c \in {<<"7">>} |->
                    [present |-> TRUE, file_type |-> "video", downloads |-> 0]]
    /\ clock = 0
    /\ events = 0
    /\ kb_shown = {}
    /\ admin_states = None
    /\ settings = [next_code |-> <<"8">>]
    /\ task = [t \in Tasks |-> IdleTask]

\* The dispatcher starts the handler of the next message as its own task, so the
\* handlers of two messages interleave at their awaits; a returned coroutine
\* stays as it ended.
NextConc ==
    \E t \in Tasks :
        \/ StartUserMessage(t)
        \/ uh_add_user(t)
        \/ uh_get_record(t)
        \/ cua_list_monitored(t)
        \/ cua_list_pending(t)
        \/ cua_list_groups(t)
        \/ uh_update_validated(t)
        \/ get_movie_and_send(t)
        \/ incr_update(t)
        \/ incr_select(t)

SpecConc == InitConc /\ [][NextConc]_vars

\* ------------------------------------------------------------ add_movie_db
\* kinot.py:284-286: the first statement of add_movie_db
am_select(t) ==
    /\ At(t, "am_select")
    /\ Goto(t, [task[t] EXCEPT
            !.downloads = add_movie_db_select(movies, task[t].code),
            !.pc = "am_insert"])
    /\ UNCHANGED <<AdminVars, StoreVars, TimeVars, events, kb_shown>>

\* kinot.py:287-291 and 696-697: the second statement of add_movie_db, then the
\* notice with the code, which safe_send may fail to deliver
am_insert(t) ==
    /\ At(t, "am_insert")
    /\ movies' = add_movie_db_insert(movies, task[t].code, task[t].media,
                                     task[t].downloads)
    /\ \E sent \in BOOLEAN :
        Goto(t, [task[t] EXCEPT
            !.out = Append(@, <<"movie_saved", task[t].code, sent>>),
            !.pc = "done"])
    /\ UNCHANGED <<AdminVars, users, groups, join_monitored, pending_join_requests,
                   pending_seq, TimeVars, events, kb_shown>>

\* The catalogs add_movie_db is called on: each code absent, or present with
\* either file type and a counter.
CatalogCodes == {<<"7">>, <<"8">>}
CatalogRows ==
    [present : {TRUE}, file_type : {"video", "document"}, downloads : {0, 1, 2}]
Catalogs == UNION {[D -> CatalogRows] : D \in SUBSET CatalogCodes}

\* A call add_movie_db(code, title, file_id, ftype, ...) of line 696 about to
\* run on a catalog.
InitAddMovie ==
    /\ users = [u \in UserIds |-> NoRow]
    /\ join_monitored = <<>>
    /\ groups = <<>>
    /\ pending_join_requests = <<>>
    /\ pending_seq = 0
    /\ movies \in Catalogs
    /\ clock = 0
    /\ events = 1
    /\ kb_shown = {}
    /\ admin_states = None
    /\ settings = [next_code |-> <<"9">>]
    /\ \E c \in CatalogCodes, ft \in {"video", "document"} :
        task = [t \in Tasks |->
                    IF t = 1
                    THEN [IdleTask EXCEPT !.kind = "admin_text_handler",
                                          !.pc = "am_select",
                                          !.code = c, !.media = ft]
                    ELSE IdleTask]

NextAddMovie == \E t \in Tasks : am_select(t) \/ am_insert(t)

SpecAddMovie == InitAddMovie /\ [][NextAddMovie]_vars

\* ------------------------------------------------------- the administrator
\* text.split(): the whitespace-separated words
RECURSIVE Split(_)
Split(s) ==
    LET r == LStrip(s)
    IN  IF r = <<>> THEN <<>>
        ELSE LET ends == {i \in 1..Len(r) : IsSpace(r[i])}
                 n == IF ends = {} THEN Len(r) + 1
                      ELSE CHOOSE i \in ends : \A j \in ends : i <= j
             IN  <<SubSeq(r, 1, n - 1)>> \o Split(Drop(r, n - 1))

\* int(s) of a decimal numeral; -1 stands for the ValueError
RECURSIVE ParseNat(_)
ParseNat(s) ==
    IF s = <<>> \/ \E i \in 1..Len(s) : ~IsDigit(s[i]) THEN 0 - 1
    ELSE LET d == (CHOOSE i \in 1..10 : Digits[i] = s[Len(s)]) - 1
         IN  IF Len(s) = 1 THEN d
             ELSE ParseNat(SubSeq(s, 1, Len(s) - 1)) * 10 + d

T_Cancel == <<"C","a","n","c","e","l">>
T_AddMovie == <<"A","d","d"," ","M","o","v","i","e">>
T_AddGroup == <<"A","d","d"," ","G","r","o","u","p">>
T_RemoveMovie == <<"R","e","m","o","v","e"," ","M","o","v","i","e">>
T_cmd_start == <<"/","s","t","a","r","t">>
T_cmd_pending == <<"/","p","e","n","d","i","n","g">>
T_cmd_remove_pending == <<"/","r","e","m","o","v","e","_","p","e","n","d","i","n","g">>
\* "/remove_pending 1"
T_RemovePending1 == T_cmd_remove_pending \o <<" ", "1">>

\* The filter Command(name): the first word of the text is the command
IsCommand(text, cmd) == Split(text) # <<>> /\ Split(text)[1] = cmd

\* The message handlers in the order of their registration: kinot.py:449, 507,
\* 784, 938, 950.
MessageHandlers ==
    <<"cmd_start", "admin_text_handler", "user_handler", "cmd_pending",
      "cmd_remove_pending">>

\* The filter of each handler
Matches(h, from_admin, text) ==
    CASE h = "cmd_start" -> IsCommand(text, T_cmd_start)
      [] h = "admin_text_handler" -> from_admin
      [] h = "user_handler" -> ~from_admin
      [] h = "cmd_pending" -> IsCommand(text, T_cmd_pending)
      [] h = "cmd_remove_pending" -> IsCommand(text, T_cmd_remove_pending)

\* The dispatcher gives a message to the first handler whose filter passes.
HandlerFor(from_admin, text) ==
    LET ms == {i \in 1..Len(MessageHandlers) : Matches(MessageHandlers[i], from_admin, text)}
    IN  IF ms = {} THEN "none"
        ELSE MessageHandlers[CHOOSE i \in ms : \A j \in ms : i <= j]

\* kinot.py:950-964: the rows left by DELETE ... WHERE id = int(parts[1]); the
\* table as it is when the argument is missing or not a number
cmd_remove_pending(tbl, text) ==
    LET parts == Split(text)
    IN  IF Len(parts) < 2 \/ ParseNat(parts[2]) < 0 THEN tbl
        ELSE SelectSeq(tbl, LAMBDA r : r.id # ParseNat(parts[2]))

\* kinot.py:216-220
settings_get(tbl, key) == tbl[key]

\* kinot.py:222-225
settings_set(tbl, key, value) == [tbl EXCEPT ![key] = value]

\* kinot.py:293-297  DELETE FROM movies WHERE code = ?
remove_movie_db(tbl, code) == [c \in DOMAIN tbl \ {code} |-> tbl[c]]

\* What the administrator sends: a text (media "none"), or a file without text
AdminMessages ==
    {[txt |-> x, media |-> "none"] :
        x \in {T_Cancel, T_AddGroup, T_AddMovie, T_RemoveMovie, T_RemovePending1,
               <<"7">>}}
    \cup {[txt |-> <<>>, media |-> m] : m \in {"video", "document"}}

\* admin_states[ADMIN_ID]: None, or <<action, step>>, with the file type behind
\* them once the file has come and the invite once the link has come
St_group_wait_link == <<"add_group", "wait_link">>
St_group_wait_chatid(invite) == <<"add_group", "wait_chatid", invite>>
St_wait_media == <<"add_movie", "wait_media">>
St_wait_meta(ft) == <<"add_movie", "wait_meta", ft>>
St_wait_code == <<"remove_movie", "wait_code">>

\* A message of the administrator reaches the handler the dispatcher picks for
\* it. cmd_remove_pending has one store statement, taken here with the dispatch.
StartAdminMessage(t) ==
    /\ Free(t)
    /\ events < MaxEvents
    /\ \E m \in AdminMessages :
        LET h == HandlerFor(TRUE, m.txt)
        IN  /\ h \in {"admin_text_handler", "cmd_remove_pending"}
            /\ IF h = "cmd_remove_pending"
               THEN /\ pending_join_requests' =
                            cmd_remove_pending(pending_join_requests, m.txt)
                    /\ Goto(t, [IdleTask EXCEPT !.kind = h, !.pc = "done",
                                                !.txt = m.txt,
                                                !.out = <<<<"pending_removed">>>>])
               ELSE /\ pending_join_requests' = pending_join_requests
                    /\ Goto(t, [IdleTask EXCEPT !.kind = h, !.pc = "ath_entry",
                                                !.txt = m.txt, !.media = m.media])
    /\ events' = events + 1
    /\ UNCHANGED <<AdminVars, users, groups, join_monitored, pending_seq, movies,
                   TimeVars, kb_shown>>

\* int(text) followed by str(): None stands for the ValueError. (The
\* re.fullmatch(r"-?\d{5,}") that follows a ValueError at kinot.py:543 and 611
\* accepts no text of ASCII characters that int() refused.)
ParseChatId(text) ==
    LET v == Strip(text)
        neg == v # <<>> /\ v[1] = "-"
        digits == IF v # <<>> /\ v[1] \in {"-", "+"} THEN Tail(v) ELSE v
    IN  IF ParseNat(digits) < 0 THEN None
        ELSE IntToStr(IF neg THEN 0 - ParseNat(digits) ELSE ParseNat(digits))

\* kinot.py:227-231  INSERT OR REPLACE INTO groups(chat_id, ..., invite)
add_group_db(tbl, chat_id, invite) ==
    SelectSeq(tbl, LAMBDA r : r.chat_id # chat_id)
        \o <<[chat_id |-> chat_id, invite |-> invite]>>

\* The texts of the keyboard buttons that start a flow, kinot.py:731-760
TopLevelCommands == {T_AddGroup, T_AddMovie, T_RemoveMovie}

\* What a button leaves in admin_states when no flow is pending
CommandFlow(text) ==
    CASE text = T_AddGroup -> St_group_wait_link
      [] text = T_AddMovie -> St_wait_media
      [] text = T_RemoveMovie -> St_wait_code

\* a handler that lets the buttons through while a flow is pending
FlowStepYieldsToCommands(st, text) == st # None /\ text \notin TopLevelCommands

\* kinot.py:516: "if st:" -- the pending step of a flow gets the message, and
\* each step returns
FlowStepTakesMessage(st, text) == st # None

\* kinot.py:507-515, 522-541, 659-679, 700-702, 730-781: admin_text_handler up
\* to its first store or platform operation; a text that is no command and
\* meets no flow falls through every branch
ath_entry(t) ==
    /\ At(t, "ath_entry")
    /\ LET text == Strip(task[t].txt)
           st == admin_states
       IN  IF text = T_Cancel
           THEN /\ admin_states' = None
                /\ Goto(t, [task[t] EXCEPT !.out = <<<<"cancelled">>>>, !.pc = "done"])
           ELSE IF FlowStepTakesMessage(st, text)
           THEN IF st = St_group_wait_link
                THEN IF text = <<>>
                     THEN /\ admin_states' = None
                          /\ Goto(t, [task[t] EXCEPT !.out = <<<<"not_understood">>>>,
                                                     !.pc = "done"])
                     ELSE /\ admin_states' =
                                St_group_wait_chatid(IF make_tg_url(text) = None
                                                     THEN text ELSE make_tg_url(text))
                          /\ Goto(t, [task[t] EXCEPT !.out = <<<<"ask_chat_id">>>>,
                                                     !.pc = "done"])
                ELSE IF st[1] = "add_group" /\ st[2] = "wait_chatid"
                THEN /\ admin_states' = None
                     /\ IF ParseChatId(text) = None
                        THEN Goto(t, [task[t] EXCEPT !.out = <<<<"bad_chat_id">>>>,
                                                     !.pc = "done"])
                        ELSE Goto(t, [task[t] EXCEPT !.chat_id_to_save = ParseChatId(text),
                                                     !.invite = st[3],
                                                     !.pc = "ath_add_group"])
                ELSE IF st = St_wait_media
                THEN IF task[t].media # "none"
                     THEN /\ admin_states' = St_wait_meta(task[t].media)
                          /\ Goto(t, [task[t] EXCEPT !.out = <<<<"ask_meta">>>>, !.pc = "done"])
                     ELSE /\ admin_states' = None
                          /\ Goto(t, [task[t] EXCEPT !.out = <<<<"send_a_file">>>>,
                                                     !.pc = "done"])
                ELSE IF st[1] = "add_movie" /\ st[2] = "wait_meta"
                THEN /\ admin_states' = None
                     /\ Goto(t, [task[t] EXCEPT !.media = st[3], !.pc = "ath_settings_get"])
                ELSE \* remove_movie, wait_code
                     /\ admin_states' = None
                     /\ Goto(t, [task[t] EXCEPT !.code = text, !.pc = "ath_remove_movie"])
           ELSE IF text \in TopLevelCommands
           THEN /\ admin_states' = CommandFlow(text)
                /\ Goto(t, [task[t] EXCEPT !.out = <<<<"ask", text>>>>, !.pc = "done"])
           ELSE /\ admin_states' = admin_states
                /\ Goto(t, [task[t] EXCEPT !.pc = "done"])
    /\ UNCHANGED <<settings, StoreVars, TimeVars, events, kb_shown>>

\* kinot.py:549-556: get_chat(chat_id_to_save), then add_group_db under the id
\* the platform gave, or under the id as sent when get_chat raised
ath_add_group(t) ==
    /\ At(t, "ath_add_group")
    /\ \E gc \in GetChatOutcomes :
        LET cid == IF gc = Raised THEN task[t].chat_id_to_save ELSE IntToStr(gc[2])
        IN  /\ groups' = add_group_db(groups, cid, task[t].invite)
            /\ Goto(t, [task[t] EXCEPT !.out = <<<<"group_added", cid>>>>, !.pc = "done"])
    /\ UNCHANGED <<AdminVars, users, join_monitored, pending_join_requests, pending_seq,
                   movies, TimeVars, events, kb_shown>>

\* kinot.py:689-694: nxt = settings_get("next_code"); code = str(int(nxt)), 1
\* when there is no value or it is no number
ath_settings_get(t) ==
    /\ At(t, "ath_settings_get")
    /\ LET nxt == settings_get(settings, "next_code")
           ni == IF nxt = None \/ nxt = <<>> \/ ParseNat(nxt) < 0 THEN 1 ELSE ParseNat(nxt)
       IN  Goto(t, [task[t] EXCEPT !.next_code = nxt, !.code = NatToStr(ni),
                                   !.pc = "ath_settings_set"])
    /\ UNCHANGED <<AdminVars, StoreVars, TimeVars, events, kb_shown>>

\* kinot.py:695: settings_set("next_code", str(ni + 1))
ath_settings_set(t) ==
    /\ At(t, "ath_settings_set")
    /\ settings' = settings_set(settings, "next_code",
                                NatToStr(ParseNat(task[t].code) + 1))
    /\ Goto(t, [task[t] EXCEPT !.pc = "am_select"])
    /\ UNCHANGED <<admin_states, StoreVars, TimeVars, events, kb_shown>>

\* kinot.py:703-708: remove_movie_db and the notice of its result
ath_remove_movie(t) ==
    /\ At(t, "ath_remove_movie")
    /\ movies' = remove_movie_db(movies, task[t].code)
    /\ Goto(t, [task[t] EXCEPT
            !.out = <<<<IF task[t].code \in DOMAIN movies
                        THEN "movie_removed" ELSE "no_such_code">>>>,
            !.pc = "done"])
    /\ UNCHANGED <<AdminVars, users, groups, join_monitored, pending_join_requests,
                   pending_seq, TimeVars, events, kb_shown>>

\* A running bot: one monitored channel, the seeded catalog, and the
\* administrator idle or part-way through Add Group, Add Movie or Remove Movie
\* (the states "Add Group", "Add Movie", then a file, or "Remove Movie" leave
\* in admin_states).
InitAdmin ==
    /\ users = [u \in UserIds |-> NoRow]
    /\ join_monitored = <<[chat_id |-> Cid11, invite |-> None]>>
    /\ groups = <<>>
    /\ pending_join_requests = <<>>
    /\ pending_seq = 0
    /\ movies = [c \in {<<"7">>} |->
                    [present |-> TRUE, file_type |-> "video", downloads |-> 0]]
    /\ clock = 0
    /\ events = 0
    /\ kb_shown = {}
    /\ admin_states \in {None, St_group_wait_link, St_wait_media,
                         St_wait_meta("video"), St_wait_code}
    /\ settings = [next_code |-> <<"8">>]
    /\ task = [t \in Tasks |-> IdleTask]

NextAdmin ==
    \E t \in Tasks :
        \/ (AllIdle /\ StartAdminMessage(t))
        \/ (AllIdle /\ StartJoinRequest(t))
        \/ ath_entry(t)
        \/ ath_add_group(t)
        \/ ath_settings_get(t)
        \/ ath_settings_set(t)
        \/ am_select(t)
        \/ am_insert(t)
        \/ ath_remove_movie(t)
        \/ jr_is_monitored(t)
        \/ jr_select_invite(t)
        \/ jr_scan_invites(t)
        \/ jr_add_pending(t)
        \/ jr_notify(t)
        \/ Finish(t)

SpecAdmin == InitAdmin /\ [][NextAdmin]_vars

\* ------------------------------------------------- failing store operations
\* The positions whose step starts with a statement on the database
StoreOpPcs ==
    {"uh_add_user", "uh_get_record", "get_movie", "incr_update", "incr_select",
     "uh_invalidate", "uh_update_validated", "cua_list_monitored",
     "cua_list_pending", "cua_list_groups", "cb_update_validated",
     "jr_is_monitored", "jr_select_invite", "jr_scan_invites", "jr_add_pending"}

\* Where an exception raised by the store operation of position pc takes the
\* handler, and whether it leaves the handler. on_chat_join_request: the inner
\* try of kinot.py:882-890 goes on with monitored = False, the outer one of
\* 876-935 logs and returns. user_handler: the try of 817-827 and 859-868 around
\* increment_movie_downloads logs and returns; its other store operations and
\* those of cb_check_sub and check_user_all stand in no try.
OnStoreFailure(kind, pc) ==
    IF kind = "on_chat_join_request"
    THEN IF pc \in {"jr_is_monitored", "jr_select_invite"}
         THEN [pc |-> "jr_scan_invites", escaped |-> FALSE]
         ELSE [pc |-> "done", escaped |-> FALSE]
    ELSE IF pc \in {"incr_update", "incr_select"}
         THEN [pc |-> "done", escaped |-> FALSE]
         ELSE [pc |-> "done", escaped |-> TRUE]

\* The store operation a handler is about to run raises (sqlite3.Error: the
\* file is locked, the disk is full); nothing is written.
store_op_raises(t) ==
    /\ task[t].pc \in StoreOpPcs
    /\ LET r == OnStoreFailure(task[t].kind, task[t].pc)
       IN  Goto(t, [task[t] EXCEPT
                !.pc = r.pc,
                !.escaped = r.escaped,
                !.is_monitored = IF r.pc = "jr_scan_invites" THEN FALSE ELSE @])
    /\ UNCHANGED <<AdminVars, StoreVars, TimeVars, events, kb_shown>>

NextFaults == Next \/ \E t \in Tasks : store_op_raises(t)

SpecFaults == Init /\ [][NextFaults]_vars

\* ------------------------------------------------ the functions on links
\* The texts the two functions are applied to: a beginning, a middle and an end
\* chosen among the cases their branches tell apart.
TextPrefixes ==
    {<<>>, <<" ">>, <<"@">>, <<"@", "@">>, T_plus, T_tme, T_telegramme, T_httpc,
     T_https, <<"H","T","T","P","S",":","/","/">>, T_http, T_https \o T_tme,
     T_https \o <<"w","w","w",".">>,
     <<"H","t","t","p",":","/","/","W","W","W",".">>}
TextBodies ==
    {<<>>, <<"a","b">>, <<"a","b","c">>, <<"a"," ","b">>, T_joinchat,
     <<"+","a","b">>, <<"A","b","/","c">>}
TextSuffixes == {<<>>, <<" ">>, <<"/">>, <<"/", "/">>, <<"/", " ">>}
TextInputs ==
    {p \o b \o e : p \in TextPrefixes, b \in TextBodies, e \in TextSuffixes}

\* A call of one of the functions on a text is about to be made.
InitText ==
    /\ users = [u \in UserIds |-> NoRow]
    /\ join_monitored = <<>>
    /\ groups = <<>>
    /\ pending_join_requests = <<>>
    /\ pending_seq = 0
    /\ movies = [c \in {<<"7">>} |->
                    [present |-> TRUE, file_type |-> "video", downloads |-> 0]]
    /\ clock = 0
    /\ events = 0
    /\ kb_shown = {}
    /\ admin_states = None
    /\ settings = [next_code |-> <<"8">>]
    /\ \E x \in TextInputs :
        task = [t \in Tasks |->
                    IF t = 1
                    THEN [IdleTask EXCEPT !.kind = "text", !.pc = "text", !.arg = x]
                    ELSE IdleTask]

\* kinot.py:57-79: make_tg_url(x)
call_make_tg_url(t) ==
    /\ At(t, "text")
    /\ Goto(t, [task[t] EXCEPT !.res = <<make_tg_url(task[t].arg)>>,
                               !.pc = "made"])
    /\ UNCHANGED <<AdminVars, StoreVars, TimeVars, events, kb_shown>>

\* kinot.py:57-79: make_tg_url applied to the URL it returned
call_make_tg_url_again(t) ==
    /\ At(t, "made")
    /\ task[t].res[1] # None
    /\ Goto(t, [task[t] EXCEPT !.res = Append(@, make_tg_url(task[t].res[1])),
                               !.pc = "made_again"])
    /\ UNCHANGED <<AdminVars, StoreVars, TimeVars, events, kb_shown>>

\* kinot.py:81-90: normalize_invite_for_compare(x)
call_normalize_invite_for_compare(t) ==
    /\ At(t, "text")
    /\ Goto(t, [task[t] EXCEPT !.res = <<normalize_invite_for_compare(task[t].arg)>>,
                               !.pc = "normalized"])
    /\ UNCHANGED <<AdminVars, StoreVars, TimeVars, events, kb_shown>>

NextText ==
    \E t \in Tasks :
        \/ call_make_tg_url(t)
        \/ call_make_tg_url_again(t)
        \/ call_normalize_invite_for_compare(t)

SpecText == InitText /\ [][NextText]_vars

\* ------------------------------------------- overlapping checks of a user
\* The handlers of two updates in flight at once, on the store and the chats of
\* InitLater: redemptions and presses of the check_sub button interleave at
\* their awaits. A returned coroutine stays as it ended.
NextRace ==
    \E t \in Tasks :
        \/ StartUserMessage(t)
        \/ StartCheckSub(t)
        \/ uh_add_user(t)
        \/ uh_get_record(t)
        \/ get_movie_and_send(t)
        \/ incr_update(t)
        \/ incr_select(t)
        \/ uh_invalidate(t)
        \/ uh_update_validated(t)
        \/ cua_list_monitored(t)
        \/ cua_list_pending(t)
        \/ cua_list_groups(t)
        \/ cb_update_validated(t)
        \/ cb_answer(t)

SpecRace == InitLater /\ [][NextRace]_vars

\* --------------------------------------------- a check after a join request
\* The dispatcher takes an update when no handler is in flight, as in Spec; a
\* handler that has returned is kept (its event, its locals at the return), so
\* that a later handler's run can be set against it.
AllSettled == \A t \in Tasks : At(t, "idle") \/ At(t, "done")

NextKept ==
    \E t \in Tasks :
        \/ (AllSettled /\ StartJoinRequest(t))
        \/ (AllSettled /\ StartUserMessage(t))
        \/ jr_is_monitored(t)
        \/ jr_select_invite(t)
        \/ jr_scan_invites(t)
        \/ jr_add_pending(t)
        \/ jr_notify(t)
        \/ uh_add_user(t)
        \/ uh_get_record(t)
        \/ get_movie_and_send(t)
        \/ incr_update(t)
        \/ incr_select(t)
        \/ uh_invalidate(t)
        \/ uh_update_validated(t)
        \/ cua_list_monitored(t)
        \/ cua_list_pending(t)
        \/ cua_list_groups(t)

SpecKept == Init /\ [][NextKept]_vars

\* ------------------------------------- a re-save while codes are redeemed
\* add_movie_db(code, ...) of line 696 about to run for a code the catalog
\* already has, on the database of InitConc; the users' messages come in while
\* it runs, each handled by a task of its own.
InitResave ==
    /\ users = [u \in UserIds |-> NoRow]
    /\ join_monitored = <<>>
    /\ groups = <<>>
    /\ pending_join_requests = <<>>
    /\ pending_seq = 0
    /\ movies = [c \in {<<"7">>} |->
                    [present |-> TRUE, file_type |-> "video", downloads |-> 0]]
    /\ clock = 0
    /\ events = 1
    /\ kb_shown = {}
    /\ admin_states = None
    /\ settings = [next_code |-> <<"8">>]
    /\ \E ft \in {"video", "document"} :
        task = [t \in Tasks |->
                    IF t = 1
                    THEN [IdleTask EXCEPT !.kind = "admin_text_handler",
                                          !.pc = "am_select",
                                          !.code = <<"7">>, !.media = ft]
                    ELSE IdleTask]

NextResave == NextConc \/ NextAddMovie

SpecResave == InitResave /\ [][NextResave]_vars

\* -------------------------------------------- overlapping Add Movie flows
\* A database on which no movie has been saved, or one whose next_code lies
\* above its only code; the administrator is idle.
InitFlows ==
    /\ users = [u \in UserIds |-> NoRow]
    /\ join_monitored = <<>>
    /\ groups = <<>>
    /\ pending_join_requests = <<>>
    /\ pending_seq = 0
    /\ \/ /\ movies = [c \in {} |-> NoRow]
          /\ settings = [next_code |-> None]
       \/ /\ movies = [c \in {<<"7">>} |->
                        [present |-> TRUE, file_type |-> "video", downloads |-> 0]]
          /\ settings = [next_code |-> <<"8">>]
    /\ clock = 0
    /\ events = 0
    /\ kb_shown = {}
    /\ admin_states = None
    /\ task = [t \in Tasks |-> IdleTask]

\* The messages of the Add Movie flow: the button, a file, a caption
FlowMessages ==
    {m \in AdminMessages : m.txt \in {T_AddMovie, <<"7">>} \/ m.media = "video"}

\* kinot.py:507 and 966-971: the dispatcher starts the handler of the next
\* message of the administrator as a task of its own, whether or not an
\* earlier handler is still waiting for the database
StartFlowMessage(t) ==
    /\ Free(t)
    /\ events < MaxFlowMessages
    /\ \E m \in FlowMessages :
        Goto(t, [IdleTask EXCEPT !.kind = "admin_text_handler", !.pc = "ath_entry",
                                 !.txt = m.txt, !.media = m.media])
    /\ events' = events + 1
    /\ UNCHANGED <<AdminVars, StoreVars, TimeVars, kb_shown>>

NextFlows ==
    \E t \in Tasks :
        \/ StartFlowMessage(t)
        \/ ath_entry(t)
        \/ ath_settings_get(t)
        \/ ath_settings_set(t)
        \/ am_select(t)
        \/ am_insert(t)
        \/ Finish(t)

SpecFlows == InitFlows /\ [][NextFlows]_vars

\* ----------------------------------------------------------- properties
Redeeming(t) == task[t].kind = "user_handler" /\ IsCode(task[t].txt)
Delivered(r) == \E k \in 1..Len(r.out) : r.out[k][1] = "file"
Notified(r) == \E k \in 1..Len(r.out) : r.out[k][1] \in {"admin_notice", "user_ack"}
\* check_user_all has returned to its caller and its frame is still there
Returned(t) ==
    task[t].pc \in {"uh_update_validated", "uh_invalidate", "cb_update_validated", "cb_answer"}
SatisfiedStatuses ==
    {<<"status", "member">>, <<"status", "administrator">>, <<"status", "creator">>}
\* the identifier get_chat resolved an entry to, from the platform's raw answer
ResolvedId(e) ==
    IF e.get_chat # NotCalled /\ e.get_chat # Raised THEN IntToStr(e.get_chat[2]) ELSE e.chat_id
\* the user has a pending join request row for the entry's stored or resolved identifier
HasPending(e, u) ==
    \E i \in 1..Len(pending_join_requests) :
        /\ pending_join_requests[i].user_id = u
        /\ pending_join_requests[i].chat_id \in {e.chat_id, ResolvedId(e)}
Unsatisfied(e, u) ==
    IF e.table = "join"
    THEN ~HasPending(e, u) /\ e.get_chat_member \notin SatisfiedStatuses
    ELSE e.get_chat_member \notin SatisfiedStatuses
ExpectedMissing(q, u) ==
    LET uns == SelectSeq(q, LAMBDA e : Unsatisfied(e, u))
    IN  [i \in 1..Len(uns) |-> <<uns[i].chat_id, uns[i].invite>>]
\* the monitored entries in the order check_user_all goes through them
MonitoredEntries ==
    LET jm == list_join_monitored_db(join_monitored)
        gr == list_groups_db(groups)
    IN  [i \in 1..Len(jm) |-> [table |-> "join", chat_id |-> jm[i].chat_id, invite |-> jm[i].invite]]
        \o [i \in 1..Len(gr) |-> [table |-> "group", chat_id |-> gr[i].chat_id, invite |-> gr[i].invite]]

\* C1: a redemption that finds the record a refresh left (subscribed = 1,
\* last_validated_at = t) takes the cached path when now - t < VALIDATION_TTL
\* and calls check_user_all when now - t >= VALIDATION_TTL.
C1_TtlDecision ==
    [][\A t \in Tasks :
        (At(t, "uh_get_record") /\ task'[t].pc # "uh_get_record") =>
            LET r == users[task[t].user]
            IN  (r.present /\ r.subscribed = 1 /\ r.last_validated_at # None) =>
                    LET elapsed == clock' - r.last_validated_at[2]
                    IN  /\ elapsed < VALIDATION_TTL =>
                            task'[t].path = "hit" /\ task'[t].pc = "get_movie"
                        /\ elapsed >= VALIDATION_TTL =>
                            task'[t].path = "miss" /\ task'[t].pc = "cua_list_monitored"
     ]_vars

\* a redemption of a validated user exactly VALIDATION_TTL seconds after the
\* refresh is on its way into check_user_all
C1_Witness ==
    \E t \in Tasks :
        /\ Redeeming(t)
        /\ task[t].pc = "cua_list_monitored"
        /\ task[t].subscribed = 1
        /\ task[t].last_validated_at # None
        /\ users[task[t].user].last_validated_at = isoformat(task[t].last_validated_at)
        /\ total_seconds(task[t].now, task[t].last_validated_at) = VALIDATION_TTL

\* C2: a redemption is on the cached path only if the stored record it read has
\* subscribed = 1 and a last_validated_at less than VALIDATION_TTL before now; a
\* redemption that read subscribed = 0 has delivered a file only after
\* check_user_all returned satisfied in that redemption.
C2_SkipOnlyWhenFresh ==
    \A t \in Tasks :
        Redeeming(t) =>
            /\ task[t].path = "hit" =>
                /\ task[t].subscribed = 1
                /\ task[t].last_validated_at # None
                /\ total_seconds(task[t].now, task[t].last_validated_at) < VALIDATION_TTL
                /\ users[task[t].user].subscribed = 1
                /\ users[task[t].user].last_validated_at = isoformat(task[t].last_validated_at)
                /\ task[t].ret = ""
            /\ (Delivered(task[t]) /\ task[t].subscribed = 0) =>
                /\ task[t].path = "miss"
                /\ task[t].ok
                /\ task[t].ret = "user_handler"

\* a user whose record said subscribed = 0 got the file after a satisfied evaluation
C2_Witness ==
    \E t \in Tasks :
        /\ Redeeming(t)
        /\ Delivered(task[t])
        /\ task[t].subscribed = 0
        /\ task[t].path = "miss"
        /\ task[t].ok

\* C3: a redemption of a user whose record is validated leaves the record as it
\* is when it adds the user, and once it is on the cached path it makes no
\* evaluator query and no write to the users table.
C3_HitIsPure ==
    [][\A t \in Tasks :
        /\ (At(t, "uh_add_user")
                /\ users[task[t].user].present
                /\ users[task[t].user].subscribed = 1
                /\ users[task[t].user].last_validated_at # None) =>
            users' = users
        /\ (task'[t].kind = "user_handler" /\ task'[t].path = "hit") =>
            /\ users' = users
            /\ task'[t].qlog = <<>>
            /\ task'[t].ret = ""
            /\ task'[t].pc \in {"get_movie", "incr_update", "incr_select", "done"}
     ]_vars

\* a cached redemption that delivered the file and is over
C3_Witness ==
    \E t \in Tasks :
        /\ Redeeming(t)
        /\ task[t].path = "hit"
        /\ task[t].pc = "done"
        /\ Delivered(task[t])
        /\ users[task[t].user].last_validated_at = isoformat(task[t].last_validated_at)

\* C4: when check_user_all returns, every monitored entry was gone through, the
\* missing list is the list of the unsatisfied ones, and ok is TRUE iff it is
\* empty; a join-request channel is unsatisfied iff the user has no matching
\* pending row and the answer is not member, administrator or creator; a group
\* is always queried and is unsatisfied iff the answer is not one of the three.
C4_MissingIsUnsatisfied ==
    \A t \in Tasks :
        Returned(t) =>
            LET q == task[t].qlog
                u == task[t].user
            IN  /\ Len(q) = Len(MonitoredEntries)
                /\ \A i \in 1..Len(q) :
                    /\ q[i].table = MonitoredEntries[i].table
                    /\ q[i].chat_id = MonitoredEntries[i].chat_id
                    /\ q[i].invite = MonitoredEntries[i].invite
                    /\ q[i].table = "group" => q[i].get_chat_member # NotCalled
                /\ task[t].missing = ExpectedMissing(q, u)
                /\ task[t].ok <=> (task[t].missing = <<>>)

\* a returned evaluation where a pending row satisfied a join-request channel
\* and the group of the same chat was queried and is missing
C4_Witness ==
    \E t \in Tasks :
        /\ Returned(t)
        /\ \E i, j \in 1..Len(task[t].qlog) :
            LET q == task[t].qlog
            IN  /\ q[i].table = "join"
                /\ HasPending(q[i], task[t].user)
                /\ q[j].table = "group"
                /\ q[j].chat_id = q[i].chat_id
                /\ q[j].get_chat_member = <<"status", "left">>
                /\ <<q[j].chat_id, q[j].invite>> \in Range(task[t].missing)

\* C5: when check_user_all returns it has gone through every monitored
\* join-request channel and group, whatever raised on the way: an entry whose
\* get_chat_member raised is in the missing list, and an entry whose get_chat
\* raised was looked up under its stored identifier.
C5_FailuresDoNotAbort ==
    \A t \in Tasks :
        Returned(t) =>
            LET q == task[t].qlog
            IN  /\ Len(q) = Len(join_monitored) + Len(groups)
                /\ \A i \in 1..Len(q) :
                    /\ q[i].get_chat_member = Raised =>
                        <<q[i].chat_id, q[i].invite>> \in Range(task[t].missing)
                    /\ q[i].get_chat = Raised => q[i].target = q[i].chat_id
                    /\ (q[i].get_chat_member = NotCalled) =>
                        (q[i].table = "join" /\ HasPending(q[i], task[t].user))

\* both calls raised for the first entry and the entry after it was still queried
C5_Witness ==
    \E t \in Tasks :
        /\ Returned(t)
        /\ Len(task[t].qlog) >= 2
        /\ task[t].qlog[1].get_chat = Raised
        /\ task[t].qlog[1].get_chat_member = Raised
        /\ task[t].qlog[2].get_chat_member \in SatisfiedStatuses
        /\ Len(task[t].missing) = 1

\* C6: a join-request channel for which the user has a pending row, under the
\* stored or the resolved identifier, is not in the missing list and no
\* get_chat_member query was made for it.
C6_PendingSuffices ==
    \A t \in Tasks :
        Returned(t) =>
            \A i \in 1..Len(task[t].qlog) :
                LET e == task[t].qlog[i]
                IN  (e.table = "join" /\ HasPending(e, task[t].user)) =>
                        /\ e.get_chat_member = NotCalled
                        /\ <<e.chat_id, e.invite>> \notin Range(task[t].missing)

\* the pending row is under the identifier get_chat resolved the stored invite to
C6_Witness ==
    \E t \in Tasks :
        /\ Returned(t)
        /\ task[t].ok
        /\ \E i \in 1..Len(task[t].qlog) :
            LET e == task[t].qlog[i]
            IN  /\ e.table = "join"
                /\ ResolvedId(e) # e.chat_id
                /\ HasPending(e, task[t].user)
                /\ e.get_chat_member = NotCalled

\* C7: after a cache miss with a satisfied evaluation the record is subscribed = 1
\* with last_validated_at = the now read at the start of the redemption, from
\* the catalog lookup on; before the update nothing was looked up or delivered.
C7_RefreshBeforeDelivery ==
    \A t \in Tasks :
        (Redeeming(t) /\ task[t].path = "miss" /\ task[t].ok) =>
            /\ task[t].pc \in {"uh_update_validated", "get_movie", "incr_update",
                               "incr_select", "done"}
            /\ task[t].pc = "uh_update_validated" =>
                (task[t].mv = None /\ task[t].out = <<>>)
            /\ task[t].pc # "uh_update_validated" =>
                users[task[t].user] =
                    [present |-> TRUE, subscribed |-> 1,
                     last_validated_at |-> isoformat(task[t].now)]

\* an expired record was refreshed to a later time and the file went out
C7_Witness ==
    \E t \in Tasks :
        /\ Redeeming(t)
        /\ task[t].path = "miss"
        /\ task[t].ok
        /\ Delivered(task[t])
        /\ task[t].last_validated_at # None
        /\ task[t].last_validated_at # task[t].now
        /\ users[task[t].user].last_validated_at = isoformat(task[t].now)

\* C8: after a cache miss with an unsatisfied evaluation the redemption sends the
\* missing list and ends: no step of it delivers a file or changes the movies
\* table, and its write leaves subscribed = 0 and last_validated_at as the
\* redemption read it.
C8_BlockedLeavesTimestamp ==
    [][\A t \in Tasks :
        (/\ task'[t].kind = "user_handler"
         /\ task'[t].path = "miss"
         /\ ~task'[t].ok
         /\ task'[t].pc \in {"uh_invalidate", "done"}) =>
            /\ movies' = movies
            /\ ~Delivered(task'[t])
            /\ task'[t].missing # <<>>
            /\ task'[t].out = <<<<"requirements", task'[t].missing>>>>
            /\ (task'[t].pc = "done" /\ ~At(t, "done")) =>
                /\ At(t, "uh_invalidate")
                /\ users'[task[t].user].present
                /\ users'[task[t].user].subscribed = 0
                /\ users'[task[t].user].last_validated_at = users[task[t].user].last_validated_at
                /\ fromisoformat(users'[task[t].user].last_validated_at)
                        = task[t].last_validated_at
     ]_vars

\* a blocked redemption of a user validated earlier: the flag is down, the
\* timestamp is still there
C8_Witness ==
    \E t \in Tasks :
        /\ Redeeming(t)
        /\ task[t].path = "miss"
        /\ ~task[t].ok
        /\ task[t].pc = "done"
        /\ task[t].last_validated_at # None
        /\ users[task[t].user].subscribed = 0
        /\ users[task[t].user].last_validated_at = isoformat(task[t].last_validated_at)

\* The join-request event of task t, against the tables.
JoinEvent(t) == task[t].kind = "on_chat_join_request"
ChatIdMatches(t) ==
    \E i \in 1..Len(join_monitored) : join_monitored[i].chat_id = IntToStr(task[t].chat)
ChatInGroups(t) ==
    \E i \in 1..Len(groups) : groups[i].chat_id = IntToStr(task[t].chat)
ObservedToken(t) ==
    IF task[t].invite_link = None \/ task[t].invite_link = <<>> THEN <<>>
    ELSE normalize_invite_for_compare(task[t].invite_link)
\* some stored invite is non-empty and its normalized form is in the observed link
StoredInviteInLink(t) ==
    \E i \in 1..Len(join_monitored) :
        LET inv == join_monitored[i].invite
        IN  /\ inv # None
            /\ inv # <<>>
            /\ Contains(ObservedToken(t), normalize_invite_for_compare(inv))
\* ... and that normalized form is non-empty
StoredTokenInLink(t) ==
    \E i \in 1..Len(join_monitored) :
        LET inv == join_monitored[i].invite
        IN  /\ inv # None
            /\ inv # <<>>
            /\ normalize_invite_for_compare(inv) # <<>>
            /\ Contains(ObservedToken(t), normalize_invite_for_compare(inv))
\* the handler has appended its row
RowWritten(t) == task[t].pc = "jr_notify" \/ Notified(task[t])

\* C9 as stated: an event whose chat is in neither monitored table appends no
\* row and sends no notification, whatever its invite link.
C9_AsStated ==
    \A t \in Tasks :
        (JoinEvent(t) /\ ~ChatIdMatches(t) /\ ~ChatInGroups(t)) => ~RowWritten(t)

\* C9: an event whose chat id is the chat_id of no join_monitored row and whose
\* normalized invite link contains the non-empty normalized form of no stored
\* invite appends no row and sends no notification.
C9_UnmatchedIgnored ==
    \A t \in Tasks :
        (JoinEvent(t) /\ ~ChatIdMatches(t) /\ ~StoredTokenInLink(t)) =>
            /\ ~RowWritten(t)
            /\ task[t].pc \in {"jr_is_monitored", "jr_scan_invites", "done"}
            /\ task[t].out = <<>>
            /\ ~task[t].is_monitored

\* an event with an invite link, from a chat in neither table while a channel is
\* monitored, was ignored
C9_Witness ==
    \E t \in Tasks :
        /\ JoinEvent(t)
        /\ task[t].pc = "done"
        /\ join_monitored # <<>>
        /\ task[t].invite_link # None
        /\ ~ChatIdMatches(t)
        /\ ~ChatInGroups(t)
        /\ ~StoredTokenInLink(t)
        /\ task[t].out = <<>>

\* What a step of the join-request handler of task t does to the table when the
\* event is to be recorded iff cond.
JoinStepRecordsIff(t, cond) ==
    /\ (At(t, "jr_add_pending") /\ ~At(t, "jr_add_pending")') =>
        /\ cond
        /\ pending_join_requests' =
            Append(pending_join_requests,
                   [id |-> pending_seq + 1,
                    chat_id |-> IntToStr(task[t].chat), user_id |-> task[t].user])
    /\ ~At(t, "jr_add_pending") => pending_join_requests' = pending_join_requests
    /\ (At(t, "done")' /\ ~At(t, "done") /\ ~At(t, "jr_notify")) => ~cond

\* C10 as stated: the event is recorded iff its chat id is a join_monitored
\* chat_id or some non-empty stored invite's normalized form is a substring of
\* the normalized link; one row with the chat id and the user id is appended
\* when it is, none otherwise.
C10_AsStated ==
    [][\A t \in Tasks :
        JoinEvent(t) => JoinStepRecordsIff(t, ChatIdMatches(t) \/ StoredInviteInLink(t))
     ]_vars

\* C10: the event is recorded iff its chat id is a join_monitored chat_id or some
\* stored invite has a non-empty normalized form that is a substring of the
\* normalized link; one row with the chat id and the user id is appended when
\* it is, none otherwise.
C10_RecordsIffMatched ==
    [][\A t \in Tasks :
        JoinEvent(t) => JoinStepRecordsIff(t, ChatIdMatches(t) \/ StoredTokenInLink(t))
     ]_vars

\* an event recorded through its invite link, its chat id being no monitored one
C10_Witness ==
    \E t \in Tasks :
        /\ JoinEvent(t)
        /\ task[t].pc = "jr_notify"
        /\ ~ChatIdMatches(t)
        /\ StoredTokenInLink(t)
        /\ Len(pending_join_requests) >= 1
        /\ pending_join_requests[Len(pending_join_requests)] =
                [id |-> pending_seq,
                 chat_id |-> IntToStr(task[t].chat), user_id |-> task[t].user]


\* C11: the handler of a monitored join request sends nothing before its row is
\* in pending_join_requests; after the row it attempts the administrator notice
\* and the user acknowledgment, both, whichever of them fails, and the row stays.
C11_RowBeforeNotices ==
    \A t \in Tasks :
        JoinEvent(t) =>
            LET n == Len(pending_join_requests)
                row_in_place ==
                    /\ n >= 1
                    /\ pending_join_requests[n] =
                        [id |-> pending_seq, chat_id |-> IntToStr(task[t].chat),
                         user_id |-> task[t].user]
            IN  /\ task[t].pc \in {"jr_is_monitored", "jr_select_invite",
                                   "jr_scan_invites", "jr_add_pending"} =>
                        task[t].out = <<>>
                /\ task[t].pc = "jr_notify" => (task[t].out = <<>> /\ row_in_place)
                /\ Notified(task[t]) =>
                    /\ task[t].pc = "done"
                    /\ row_in_place
                    /\ Len(task[t].out) = 2
                    /\ task[t].out[1][1] = "admin_notice"
                    /\ task[t].out[2][1] = "user_ack"

\* the administrator notice failed, the acknowledgment went out, the row is there
C11_Witness ==
    \E t \in Tasks :
        /\ JoinEvent(t)
        /\ task[t].pc = "done"
        /\ task[t].out = <<<<"admin_notice", FALSE>>, <<"user_ack", TRUE>>>>
        /\ Len(pending_join_requests) >= 1
        /\ pending_join_requests[Len(pending_join_requests)].user_id = task[t].user

Captioned(r) == \E k \in 1..Len(r.out) : r.out[k][1] = "caption"
\* the catalog had the code and the send raised
SendFailed(r) == r.kind = "user_handler" /\ r.mv # None /\ ~Delivered(r)

\* C12: a redemption whose send_video / send_document raised ends there: the
\* movies table is as it was, and no caption edit follows.
C12_FailedSendNotCounted ==
    [][\A t \in Tasks :
        SendFailed(task'[t]) =>
            /\ task'[t].pc = "done"
            /\ movies' = movies
            /\ ~Captioned(task'[t])
            /\ task'[t].new_count = 0
     ]_vars

\* a cached redemption whose send failed, after an earlier delivery was counted
C12_Witness ==
    \E t \in Tasks :
        /\ SendFailed(task[t])
        /\ task[t].path = "hit"
        /\ task[t].pc = "done"
        /\ movies[task[t].txt].downloads = 1

NotInCatalog(code) == code \notin DOMAIN movies \/ ~movies[code].present
Validated(r) == r.path = "hit" \/ (r.path = "miss" /\ r.ok)

\* C14: a redemption of a code the catalog does not have changes nothing in the
\* movies table and sends no file; when the user passed validation, on the
\* cached path or after a fresh evaluation, it ends with the code-not-found
\* message as the only message.
C14_NotFound ==
    [][\A t \in Tasks :
        (/\ task'[t].kind = "user_handler"
         /\ IsCode(task'[t].txt)
         /\ NotInCatalog(task'[t].txt)) =>
            /\ movies' = movies
            /\ ~Delivered(task'[t])
            /\ (Validated(task'[t]) /\ task'[t].pc = "done") =>
                task'[t].out = <<<<"code_not_found">>>>
            /\ (Validated(task'[t]) /\ task'[t].pc # "done") =>
                task'[t].out = <<>>
     ]_vars

\* not found on the cached path
C14_Witness ==
    \E t \in Tasks :
        /\ Redeeming(t)
        /\ NotInCatalog(task[t].txt)
        /\ task[t].path = "hit"
        /\ task[t].pc = "done"
        /\ task[t].out = <<<<"code_not_found">>>>

Counted(c) ==
    {t \in Tasks : /\ task[t].kind = "user_handler"
                   /\ task[t].txt = c
                   /\ Delivered(task[t])
                   /\ task[t].pc \in {"incr_select", "done"}}

\* C13: with the handlers of two redemptions interleaving at every await, no step
\* lowers a download counter, and the counter of a code is its start value 0
\* plus the number of redemptions of it that delivered and incremented: two
\* concurrent deliveries leave 2, in every interleaving.
C13_NoLostIncrement ==
    [][/\ \A c \in DOMAIN movies :
            /\ c \in DOMAIN movies'
            /\ movies'[c].downloads >= movies[c].downloads
       /\ \A c \in DOMAIN movies' :
            movies'[c].downloads = Cardinality(Counted(c))'
     ]_vars

\* two users redeemed the same code at once, both UPDATEs ran before either
\* SELECT, and the counter is 2
C13_Witness ==
    /\ task[1].kind = "user_handler"
    /\ task[2].kind = "user_handler"
    /\ task[1].user # task[2].user
    /\ task[1].txt = task[2].txt
    /\ task[1].pc = "done"
    /\ task[2].pc = "done"
    /\ Delivered(task[1])
    /\ Delivered(task[2])
    /\ task[1].new_count = 2
    /\ task[2].new_count = 2
    /\ movies[task[1].txt].downloads = 2


InCatalog(tbl, code) == code \in DOMAIN tbl /\ tbl[code].present

\* C16: the INSERT OR REPLACE of add_movie_db leaves the row of its code with the
\* file type of the call and with the download counter the catalog held for
\* that code before the call, 0 when the catalog had no such code; every other
\* row is as it was.
C16_ResavePreservesCounter ==
    [][\A t \in Tasks :
        (At(t, "am_insert") /\ task'[t].pc = "done") =>
            LET c == task[t].code
            IN  /\ DOMAIN movies' = DOMAIN movies \cup {c}
                /\ movies'[c] =
                     [present |-> TRUE, file_type |-> task[t].media,
                      downloads |-> IF InCatalog(movies, c)
                                    THEN movies[c].downloads ELSE 0]
                /\ \A d \in DOMAIN movies : d # c => movies'[d] = movies[d]
     ]_vars

\* a code whose SELECT found counter 2 was saved again as a document and still
\* has 2
C16_Witness ==
    \E t \in Tasks :
        /\ task[t].kind = "admin_text_handler"
        /\ At(t, "done")
        /\ task[t].downloads = 2
        /\ task[t].media = "document"
        /\ InCatalog(movies, task[t].code)
        /\ movies[task[t].code].downloads = 2
        /\ movies[task[t].code].file_type = "document"


\* the state InitLater starts from, as Spec reaches it
LaterStateReached ==
    /\ users[1] = [present |-> TRUE, subscribed |-> 1,
                   last_validated_at |-> isoformat(<<"dt", clock>>)]
    /\ users[2] = NoRow
    /\ join_monitored = <<[chat_id |-> Cid11, invite |-> None]>>
    /\ groups = <<[chat_id |-> Cid11, invite |-> InvAb]>>
    /\ pending_join_requests = <<>>
    /\ movies[<<"7">>].downloads = 1
    /\ kb_shown = {1}
    /\ AllIdle

\* C17: as stated, once an explicit re-check has found a requirement missing
\* and answered, the record of the user has subscribed = 0.
C17_AsStated ==
    \A t \in Tasks :
        (task[t].kind = "cb_check_sub" /\ At(t, "done") /\ ~task[t].ok) =>
            users[task[t].user].subscribed = 0


\* the record of the user of task t says validated
RecordValidated(t) == users[task[t].user].subscribed = 1

\* the redemption of task t ended in one of the outcomes left to a validated
\* user: the file, the not-found notice, or a send the platform refused
RedemptionServed(t) ==
    \/ Delivered(task[t])
    \/ \E k \in 1..Len(task[t].out) : task[t].out[k][1] = "code_not_found"
    \/ SendFailed(task[t])

\* C18: whatever the record of the user holds when it starts (no row before,
\* validated, expired, invalidated), a redemption in flight ends, and when it
\* was served from a fresh cache entry or its check found every requirement
\* met, it ends with the record validated and with the file delivered, the
\* not-found notice, or a refused send; an explicit re-check in flight ends,
\* and when its check found every requirement met, the record is validated as
\* of the re-check time.
C18_NoTerminalState ==
    \A t \in Tasks :
        /\ (task[t].kind = "user_handler" /\ At(t, "uh_get_record") /\ IsCode(task[t].txt))
              ~> (/\ task[t].kind = "user_handler"
                  /\ At(t, "done")
                  /\ (task[t].path = "hit" \/ task[t].ok) =>
                        (RecordValidated(t) /\ RedemptionServed(t)))
        /\ (task[t].kind = "cb_check_sub" /\ At(t, "cua_list_monitored"))
              ~> (/\ task[t].kind = "cb_check_sub"
                  /\ At(t, "done")
                  /\ task[t].ok =>
                        /\ RecordValidated(t)
                        /\ task[t].now # None
                        /\ users[task[t].user].last_validated_at = isoformat(task[t].now))

\* a user whose record had been invalidated (subscribed = 0 with a timestamp)
\* redeemed a code with every requirement met: validated again, file delivered
C18_Witness ==
    \E t \in Tasks :
        /\ task[t].kind = "user_handler"
        /\ At(t, "done")
        /\ task[t].subscribed = 0
        /\ task[t].last_validated_at # None
        /\ task[t].ok
        /\ RecordValidated(t)
        /\ Delivered(task[t])


\* the administrator's message "/remove_pending 1" has been handled
RemovePendingHandled(t) ==
    /\ task[t].kind \in {"admin_text_handler", "cmd_remove_pending"}
    /\ At(t, "done")
    /\ Strip(task[t].txt) = T_RemovePending1

\* C19: as stated, once the administrator's "/remove_pending 1" has been
\* handled, pending_join_requests has no row with id 1.
C19_AsStated ==
    \A t \in Tasks :
        RemovePendingHandled(t) =>
            \A k \in 1..Len(pending_join_requests) : pending_join_requests[k].id # 1


\* C20: as stated, no exception raised while an event is handled leaves
\* user_handler, cb_check_sub or on_chat_join_request.
C20_AsStated ==
    \A t \in Tasks :
        task[t].kind \in {"user_handler", "cb_check_sub", "on_chat_join_request"} =>
            ~task[t].escaped



\* C21: whenever make_tg_url returns a URL for a text, make_tg_url of that URL
\* is the same URL.
C21_MakeTgUrlIdempotent ==
    \A t \in Tasks :
        At(t, "made_again") => task[t].res[2] = task[t].res[1]

\* a text the function changed (a prefix was added), and the second call gave
\* the same URL again
C21_Witness ==
    \E t \in Tasks :
        /\ At(t, "made_again")
        /\ task[t].res[1] # Strip(task[t].arg)
        /\ task[t].res[2] = task[t].res[1]


\* a is b with some elements left out
RECURSIVE IsSubsequence(_, _)
IsSubsequence(a, b) ==
    IF a = <<>> THEN TRUE
    ELSE IF b = <<>> THEN FALSE
    ELSE IF a[1] = b[1] THEN IsSubsequence(Tail(a), Tail(b))
    ELSE IsSubsequence(a, Tail(b))

\* the (chat_id, invite) pairs of a table as its list function returns them
StoredPairs(rows) == [i \in 1..Len(rows) |-> <<rows[i].chat_id, rows[i].invite>>]

\* C22: the missing list check_user_all returns is a run of join_monitored
\* entries followed by a run of groups entries, each run in the order
\* list_join_monitored_db and list_groups_db give, every element being the
\* stored (chat_id, invite) pair; an unsatisfied entry whose identifier get_chat
\* resolved to another one is listed under its stored identifier.
C22_MissingOrderAndValues ==
    \A t \in Tasks :
        Returned(t) =>
            LET ms == task[t].missing
            IN  /\ \E k \in 0..Len(ms) :
                    /\ IsSubsequence(SubSeq(ms, 1, k),
                                     StoredPairs(list_join_monitored_db(join_monitored)))
                    /\ IsSubsequence(SubSeq(ms, k + 1, Len(ms)),
                                     StoredPairs(list_groups_db(groups)))
                /\ \A i \in 1..Len(task[t].qlog) :
                    LET e == task[t].qlog[i]
                    IN  (Unsatisfied(e, task[t].user) /\ ResolvedId(e) # e.chat_id) =>
                            /\ <<e.chat_id, e.invite>> \in Range(ms)
                            /\ <<ResolvedId(e), e.invite>> \notin Range(ms)

\* two join-request channels are missing, listed in ORDER BY chat_id order
\* (not in the order they were inserted), the first under its stored token
\* although get_chat resolved it to a numeric id
C22_Witness ==
    \E t \in Tasks :
        /\ Returned(t)
        /\ Len(task[t].missing) = 2
        /\ Len(join_monitored) = 2
        /\ join_monitored[2].chat_id = CidToken
        /\ task[t].missing[1][1] = CidToken
        /\ task[t].missing[2][1] = Cid12
        /\ task[t].qlog[1].chat_id = CidToken
        /\ ResolvedId(task[t].qlog[1]) = Cid11


\* task t is inside check_user_all
Evaluating(t) ==
    task[t].pc \in {"cua_list_monitored", "cua_list_pending", "cua_list_groups"}

\* C23: no step of check_user_all changes the users, groups, join_monitored,
\* pending_join_requests, movies or settings table, whatever the platform
\* answers or raises and whatever the verdict.
C23_EvaluatorWritesNothing ==
    [][\A t \in Tasks :
        (Evaluating(t) /\ task'[t] # task[t]) =>
            /\ users' = users
            /\ groups' = groups
            /\ join_monitored' = join_monitored
            /\ pending_join_requests' = pending_join_requests
            /\ movies' = movies
            /\ settings' = settings
     ]_vars

\* an evaluation in which get_chat and get_chat_member raised has returned
\* "not satisfied", and the record of the user is still the validated one an
\* earlier redemption left
C23_Witness ==
    \E t \in Tasks :
        /\ Returned(t)
        /\ ~task[t].ok
        /\ \E i \in 1..Len(task[t].qlog) :
            /\ task[t].qlog[i].get_chat = Raised
            /\ task[t].qlog[i].get_chat_member = Raised
        /\ users[task[t].user].subscribed = 1
        /\ users[task[t].user].last_validated_at # None


\* the two handlers were redemptions of one user that have both ended, a on
\* the cached record and b through check_user_all
HitAndMissEnded(a, b) ==
    /\ a # b
    /\ Redeeming(a) /\ At(a, "done") /\ task[a].path = "hit"
    /\ Redeeming(b) /\ At(b, "done") /\ task[b].path = "miss"
    /\ task[a].user = task[b].user

\* C24: when two overlapping redemptions of one user have ended, one served
\* from the cached record and one through a fresh evaluation, the stored
\* subscribed value of the user is the verdict of that one evaluation, in
\* whatever order their steps were taken.
C24_HitAndMissConverge ==
    \A a, b \in Tasks :
        HitAndMissEnded(a, b) =>
            users[task[a].user].subscribed = (IF task[b].ok THEN 1 ELSE 0)

\* the two redemptions ran at the same time (each read the counter after both
\* had incremented it, from 1 to 3); the evaluation of the one that missed the
\* cache passed, and the record is subscribed
C24_Witness ==
    \E a, b \in Tasks :
        /\ HitAndMissEnded(a, b)
        /\ Delivered(task[a])
        /\ Delivered(task[b])
        /\ task[a].new_count = 3
        /\ task[b].new_count = 3
        /\ task[b].ok
        /\ users[task[a].user].subscribed = 1


\* The administrator's handler is about to read a button text while a flow
\* is pending
CommandMidFlow(t) ==
    /\ At(t, "ath_entry")
    /\ admin_states # None
    /\ Strip(task[t].txt) \in TopLevelCommands

\* The pending step took the text as its own input: the link step keeps it as
\* the invite, the chat id step refuses it, the file step asks for a file, the
\* caption step saves a movie under it and the code step removes the movie
\* of that code
ConsumedByPendingStep(t) ==
    LET text == Strip(task[t].txt)
        st == admin_states
    IN  CASE st = St_group_wait_link ->
                /\ admin_states' = St_group_wait_chatid(IF make_tg_url(text) = None
                                                        THEN text ELSE make_tg_url(text))
                /\ task'[t].out = <<<<"ask_chat_id">>>>
          [] st = St_wait_media ->
                /\ admin_states' = None
                /\ task'[t].out = <<<<"send_a_file">>>>
          [] st = St_wait_code ->
                /\ admin_states' = None
                /\ task'[t].pc = "ath_remove_movie"
                /\ task'[t].code = text
          [] OTHER ->
                /\ admin_states' = None
                /\ IF st[2] = "wait_chatid"
                   THEN task'[t].out = <<<<"bad_chat_id">>>>
                   ELSE task'[t].pc = "ath_settings_get"

\* C25: as stated, a button text that arrives while a flow is pending replaces
\* the pending flow by the first step of the button's own flow.
C25_AsStated ==
    [][\A t \in Tasks :
        CommandMidFlow(t) /\ task'[t].pc # task[t].pc =>
            admin_states' = CommandFlow(Strip(task[t].txt))]_vars

\* C25: while a flow is pending, a button text other than Cancel is taken as
\* the input of the pending step; admin_states afterwards is what that step
\* leaves (the next step of the same flow, or nothing) and never the first step
\* of the button's flow.
C25_PendingStepConsumesCommand ==
    [][\A t \in Tasks :
        CommandMidFlow(t) /\ task'[t].pc # task[t].pc =>
            /\ ConsumedByPendingStep(t)
            /\ admin_states' # CommandFlow(Strip(task[t].txt))]_vars

\* "Add Movie" sent at the link step of Add Group has become the invite of the
\* group that is being added
C25_Witness ==
    \E t \in Tasks :
        /\ task[t].kind = "admin_text_handler"
        /\ At(t, "done")
        /\ task[t].txt = T_AddMovie
        /\ Len(admin_states) = 3
        /\ admin_states[2] = "wait_chatid"
        /\ admin_states[3] = T_AddMovie


\* The prefixes "one leading http:// or https:// and an optional www." names,
\* in lower case
SchemePrefixes ==
    {T_httpc, T_https, T_httpc \o <<"w","w","w",".">>, T_https \o <<"w","w","w",".">>}

\* x with its surrounding whitespace and the longest of those prefixes removed
WithoutSchemePrefix(x) ==
    LET u == Strip(x)
        found == {p \in SchemePrefixes : StartsWith(ToLower(u), p)}
        n == IF found = {} THEN 0
             ELSE CHOOSE k \in {Len(p) : p \in found} :
                      \A p \in found : Len(p) <= k
    IN  SubSeq(u, n + 1, Len(u))

\* r followed by k slashes
WithSlashes(r, k) == r \o [i \in 1..k |-> "/"]

\* C26: as stated, normalize_invite_for_compare gives None for the empty text
\* and otherwise the text without surrounding whitespace, without the scheme
\* and www. prefix, without one trailing slash, in lower case.
C26_AsStated ==
    \A t \in Tasks :
        At(t, "normalized") =>
            LET x == task[t].arg
                w == WithoutSchemePrefix(x)
            IN  task[t].res[1] =
                    IF x = <<>> THEN None
                    ELSE ToLower(IF w # <<>> /\ w[Len(w)] = "/"
                                 THEN SubSeq(w, 1, Len(w) - 1) ELSE w)

\* C26: normalize_invite_for_compare gives None for the empty text and
\* otherwise the text without surrounding whitespace, without the scheme and
\* www. prefix, without any of its trailing slashes, in lower case: the result
\* ends in no slash, and the result followed by some number of slashes is the
\* lower-cased text without whitespace and prefix.
C26_NormalizeStripsEverySlash ==
    \A t \in Tasks :
        At(t, "normalized") =>
            LET x == task[t].arg
                r == task[t].res[1]
                w == ToLower(WithoutSchemePrefix(x))
            IN  IF x = <<>> THEN r = None
                ELSE /\ r # None
                     /\ r = <<>> \/ r[Len(r)] # "/"
                     /\ \E k \in 0..Len(w) : w = WithSlashes(r, k)

\* a link in capitals with scheme, www. and two trailing slashes has been
\* normalized to its bare lower-case body
C26_Witness ==
    \E t \in Tasks :
        /\ At(t, "normalized")
        /\ task[t].arg = <<"H","t","t","p",":","/","/","W","W","W",".">>
                            \o <<"A","b","/","c">> \o <<"/","/">>
        /\ task[t].res[1] = <<"a","b","/","c">>


\* on_chat_join_request of task j has recorded its event
RecordedRequest(j) ==
    /\ task[j].kind = "on_chat_join_request"
    /\ At(j, "done")
    /\ task[j].is_monitored

\* The join_monitored rows the handler of task j took its event to belong to:
\* the row of the event's chat id, or else the first row whose invite is found
\* in the event's link
BelongsTo(j) ==
    IF is_join_monitored_db(join_monitored, IntToStr(task[j].chat))
    THEN {i \in 1..Len(join_monitored) :
            join_monitored[i].chat_id = IntToStr(task[j].chat)}
    ELSE {FirstInviteMatch(join_monitored, task[j].invite_link)} \ {0}

\* check_user_all of task t has returned, and it read the row task j recorded
CheckedAfter(j, t) ==
    /\ Returned(t)
    /\ task[t].user = task[j].user
    /\ \E k \in 1..Len(task[t].pendings) :
            task[t].pendings[k].chat_id = IntToStr(task[j].chat)

\* C27: as stated, once on_chat_join_request has recorded a request of user u
\* as belonging to join-request channel C (by chat id or by invite match), a
\* later check_user_all(u) makes no membership query for C and does not list C
\* as missing.
C27_AsStated ==
    \A j, t \in Tasks :
        RecordedRequest(j) /\ CheckedAfter(j, t) =>
            \A i \in BelongsTo(j) :
                /\ \A k \in 1..Len(task[t].qlog) :
                        (task[t].qlog[k].table = "join"
                            /\ task[t].qlog[k].chat_id = join_monitored[i].chat_id)
                        => task[t].qlog[k].get_chat_member = NotCalled
                /\ \A k \in 1..Len(task[t].missing) :
                        task[t].missing[k] #
                            <<join_monitored[i].chat_id, join_monitored[i].invite>>


\* No row of pending_join_requests carries user u
NoPendingOf(u) ==
    \A i \in 1..Len(pending_join_requests) : pending_join_requests[i].user_id # u

\* C28: when check_user_all(u) returns for a user without a pending row of
\* their own, it has consulted no pending row, whatever rows other users have:
\* for every join-request channel the membership query was made, and the
\* channel is listed as missing exactly when the answer was not one of member,
\* administrator, creator.
C28_OthersPendingNeverCounts ==
    \A t \in Tasks :
        Returned(t) /\ NoPendingOf(task[t].user) =>
            /\ task[t].pendings = <<>>
            /\ \A k \in 1..Len(task[t].qlog) :
                LET e == task[t].qlog[k]
                IN  e.table = "join" =>
                        /\ e.get_chat_member # NotCalled
                        /\ (<<e.chat_id, e.invite>> \in Range(task[t].missing))
                                <=> (e.get_chat_member \notin SatisfiedStatuses)

\* another user's request for channel -11 is on record, and the check of a user
\* without one has asked the platform about -11 and lists it as missing
C28_Witness ==
    \E t \in Tasks :
        /\ Returned(t)
        /\ NoPendingOf(task[t].user)
        /\ \E i \in 1..Len(pending_join_requests) :
                pending_join_requests[i].chat_id = Cid11
        /\ \E k \in 1..Len(task[t].qlog) :
                /\ task[t].qlog[k].table = "join"
                /\ task[t].qlog[k].chat_id = Cid11
                /\ task[t].qlog[k].get_chat_member = <<"status", "left">>
        /\ \E k \in 1..Len(task[t].missing) : task[t].missing[k][1] = Cid11


\* C29: as stated, while add_movie_db saves code 7 again and redemptions of 7
\* run beside it, no step lowers the counter of 7 and the counter is its value
\* before the re-save, 0, plus the number of redemptions that delivered and
\* incremented.
C29_AsStated ==
    [][/\ movies'[<<"7">>].downloads >= movies[<<"7">>].downloads
       /\ movies'[<<"7">>].downloads = Cardinality(Counted(<<"7">>)')
     ]_vars


\* Handlers a and b of one user have both ended, each after an evaluation, and
\* check_user_all of a had returned before check_user_all of b did
EvaluatedInOrder(a, b) ==
    /\ a # b
    /\ At(a, "done") /\ At(b, "done")
    /\ EvaluationReturned(a) /\ EvaluationReturned(b)
    /\ task[a].user = task[b].user
    /\ a \in task[b].after

\* C30: as stated, when a redemption and a re-check (or two redemptions) of one
\* user have ended, the earlier evaluation unsatisfied and the one that
\* completed last satisfied, the stored subscribed value is the later verdict,
\* 1: the invalidation of the earlier one has not been written over the refresh
\* of the later one.
C30_AsStated ==
    \A a, b \in Tasks :
        (EvaluatedInOrder(a, b) /\ ~task[a].ok /\ task[b].ok) =>
            users[task[b].user].subscribed = 1


\* The number next_code stands for; 0 while it is unset
NextCodeValue(tbl) ==
    IF settings_get(tbl, "next_code") = None THEN 0
    ELSE ParseNat(settings_get(tbl, "next_code"))

\* C31: as stated, with overlapping handlers of the administrator's messages,
\* the INSERT of every Add Movie flow goes to a code the catalog does not hold,
\* and the settings_set of every flow leaves next_code greater than it was.
C31_AsStated ==
    [][\A t \in Tasks :
        /\ (At(t, "am_insert") /\ task'[t].pc = "done") =>
                ~InCatalog(movies, task[t].code)
        /\ (At(t, "ath_settings_set") /\ task'[t].pc = "am_select") =>
                NextCodeValue(settings') > NextCodeValue(settings)
     ]_vars

====
